---- MODULE Spec2Model ----
(***************************************************************************)
(* Model of the index-driven sequences of iter-num-tools.                  *)
(*                                                                         *)
(*   GridSpace  (src/src/gridspace.rs): flat cursors x, y over N axes,     *)
(*              driven by next / next_back / nth.                          *)
(*   Space      (src/src/space.rs): an interpolation plus an index range   *)
(*              (Range<usize> or RangeInclusive<usize>), driven by         *)
(*              next / next_back / nth / nth_back; grid_step and           *)
(*              arange_grid are Spaces.                                    *)
(*                                                                         *)
(*   LinSpace   (src/src/linspace.rs, src/src/lerp.rs): a two-point Lerp    *)
(*              over 0..steps, driven by next / count / last.              *)
(*   Arange     (src/src/arange.rs): start + k * step below end, driven    *)
(*              by next.                                                   *)
(*   sum2 / product2 (src/src/accum/result.rs): the fold of a ResultShunt  *)
(*              over Option or Result elements, one element per step.      *)
(*   LogSpace   (src/src/logspace.rs): a Space whose interpolation is      *)
(*              start * step^x, driven by next / next_back.                *)
(*   ResultShunt::next (src/src/accum/result.rs): the calls it makes,      *)
(*              followed on a stack of frames.                             *)
(*   Step       (src/src/step.rs): forward and steps_between of the        *)
(*              integer types and of char, called on drawn arguments.      *)
(*   Map        (src/src/map.rs): a function over a Range<usize>, driven   *)
(*              by next / next_back.                                       *)
(*   grid       (src/src/grid, src/src/combine.rs): Product and Combine    *)
(*              over two to four ranges, driven by next.                   *)
(*                                                                         *)
(* Values of the element type T are modelled as exact rationals <<n, d>>   *)
(* (d > 0, lowest terms; <<0, 0>> is the result of a division by zero).    *)
(* Values of a Step type (grid_step) are modelled as i8 integers; values   *)
(* of log_space as coef * base^exp with rational coef, base and exp.       *)
(***************************************************************************)
EXTENDS Integers, Sequences, FiniteSets, TLC

VARIABLES
    cfg,              \* the arguments the sequence was constructed from
    seq,              \* the object the calls are made on (GridSpace, Space, LinSpace,
                      \* Arange, ResultShunt, Map, Product, Combine, a Step call)
    panicked,         \* the program has panicked (at construction or in a call)
    ret,              \* the last call made on seq and what it returned
    front,            \* items returned so far by next / nth (pulled by fold), in call order
    back,             \* items returned so far by next_back / nth_back, in call order
    rev,              \* check_double_ended_iter: the clone that is iterated with rev()
    actual_rev        \* check_double_ended_iter: what the rev() clone has yielded

vars == <<cfg, seq, panicked, ret, front, back, rev, actual_rev>>

----------------------------------------------------------------------------
(* Bounds of the model *)

\* largest number of axes N of a grid
MaxAxes == 2
\* largest per-axis step count drawn for a grid
MaxSteps == 3
\* largest total length (product of per-axis step counts) of a drawn grid
MaxTotal == 6
\* how far past y the front cursor x may be pushed before nth is no longer called
MaxOvershoot == 2
\* nth / nth_back are called with n in 0..MaxSkip, and with n = len and n = len + 1
MaxSkip == 1
\* width in bits of the modelled usize
UsizeBits == 8

RECURSIVE Pow(_, _)
Pow(b, e) == IF e = 0 THEN 1 ELSE b * Pow(b, e - 1)

UsizeModulus == Pow(2, UsizeBits)

----------------------------------------------------------------------------
(* Option<T> *)

None == [some |-> FALSE, val |-> <<>>]
Some(v) == [some |-> TRUE, val |-> v]

----------------------------------------------------------------------------
(* The element type T: exact rational arithmetic *)

Abs(n) == IF n < 0 THEN -n ELSE n

RECURSIVE GCD(_, _)
GCD(a, b) == IF b = 0 THEN a ELSE GCD(b, a % b)

NaN == <<0, 0>>
IsNaN(a) == a[2] = 0

Rat(n, d) ==
    IF d = 0 THEN NaN
    ELSE LET s == IF d < 0 THEN -1 ELSE 1
             g == GCD(Abs(n), Abs(d))
         IN  <<(s * n) \div g, (s * d) \div g>>

FromUsize(i) == <<i, 1>>

RAdd(a, b) == IF IsNaN(a) \/ IsNaN(b) THEN NaN ELSE Rat(a[1] * b[2] + b[1] * a[2], a[2] * b[2])
RSub(a, b) == IF IsNaN(a) \/ IsNaN(b) THEN NaN ELSE Rat(a[1] * b[2] - b[1] * a[2], a[2] * b[2])
RMul(a, b) == IF IsNaN(a) \/ IsNaN(b) THEN NaN ELSE Rat(a[1] * b[1], a[2] * b[2])
RDiv(a, b) == IF IsNaN(a) \/ IsNaN(b) THEN NaN ELSE Rat(a[1] * b[2], a[2] * b[1])
RLess(a, b) == ~IsNaN(a) /\ ~IsNaN(b) /\ a[1] * b[2] < b[1] * a[2]

\* a.ceil().to_usize(): None for NaN and for a ceiling below zero (a <= -1);
\* the ceiling -0.0 of a value in (-1, 0] converts to 0
RCeilToUsize(a) ==
    IF IsNaN(a) THEN None
    ELSE LET ceil == -((-a[1]) \div a[2])
         IN  IF ceil < 0 THEN None ELSE Some(ceil)

----------------------------------------------------------------------------
(* Linear interpolation of one axis *)

\* (start..end, steps).into() and (start..=end, steps).into()
LerpNew(start, end, steps, inclusive) ==
    [start |-> start,
     step  |-> RDiv(RSub(end, start), FromUsize(IF inclusive THEN steps - 1 ELSE steps))]

\* lerp(i) = start + T::from(i) * step
LerpEval(l, i) == RAdd(l.start, RMul(FromUsize(i), l.step))

----------------------------------------------------------------------------
(* GridSpace: src/src/gridspace.rs *)

RECURSIVE product_loop(_, _, _)
product_loop(steps, i, y) ==
    IF i > Len(steps) THEN y ELSE product_loop(steps, i + 1, (y * steps[i]) % UsizeModulus)

\* IntoGridSpace<T, [usize; N], N>: one step count per axis
into_grid_space_array(start, end, steps, inclusive) ==
    [type  |-> "GridSpace",
     lerps |-> [i \in 1..Len(steps) |-> LerpNew(start[i], end[i], steps[i], inclusive)],
     steps |-> steps,
     x     |-> 0,
     y     |-> product_loop(steps, 2, steps[1])]

\* a wrong total: steps * N instead of steps.pow(N)
into_grid_space_scalar_times(start, end, steps, inclusive) ==
    [type  |-> "GridSpace",
     lerps |-> [i \in 1..Len(start) |-> LerpNew(start[i], end[i], steps, inclusive)],
     steps |-> [i \in 1..Len(start) |-> steps],
     x     |-> 0,
     y     |-> (steps * Len(start)) % UsizeModulus]

\* IntoGridSpace<T, usize, N>: one step count for every axis
into_grid_space_scalar(start, end, steps, inclusive) ==
    [type  |-> "GridSpace",
     lerps |-> [i \in 1..Len(start) |-> LerpNew(start[i], end[i], steps, inclusive)],
     steps |-> [i \in 1..Len(start) |-> steps],
     x     |-> 0,
     y     |-> Pow(steps, Len(start)) % UsizeModulus]

RECURSIVE get_indices_loop(_, _, _, _)
get_indices_loop(j, i, max, output) ==
    IF j = 0 THEN output
    ELSE get_indices_loop(j - 1, i \div max[j], max, [output EXCEPT ![j] = i % max[j]])

RECURSIVE get_indices_loop_fwd(_, _, _, _)
get_indices_loop_fwd(j, i, max, output) ==
    IF j > Len(max) THEN output
    ELSE get_indices_loop_fwd(j + 1, i \div max[j], max, [output EXCEPT ![j] = i % max[j]])

\* a wrong get_indices: the loop runs over the axes in ascending order
get_indices_ascending(i, max) ==
    get_indices_loop_fwd(1, i, max, [j \in 1..Len(max) |-> 0])

\* for j in (0..N).rev() { output[j] = i % max[j]; i /= max[j] }
get_indices(i, max) ==
    get_indices_loop(Len(max), i, max, [j \in 1..Len(max) |-> 0])

\* i % max[j] panics when max[j] is 0; the loop visits every axis
get_indices_panics(max) == \E j \in 1..Len(max) : max[j] = 0

\* array_init(|i| lerps[i].lerp(n[i]))
GridSpaceItem(s, n) == [i \in 1..Len(s.steps) |-> LerpEval(s.lerps[i], n[i])]

\* ExactSizeIterator::len: self.y - self.x on usize (wraps in a release build)
GridSpace_len(s) == (s.y - s.x) % UsizeModulus

\* self.y - self.x overflows
GridSpace_len_overflows(s) == s.x > s.y

----------------------------------------------------------------------------
(* Step for i8: src/src/step.rs *)

I8Bits == 8
I8Min == -Pow(2, I8Bits - 1)
I8Max == Pow(2, I8Bits - 1) - 1

\* start.wrapping_add(n as i8) for n in 0..=u8::MAX
I8WrappingAddU8(start, n) == ((start + n - I8Min) % Pow(2, I8Bits)) + I8Min

\* Step::steps_between for a signed type no wider than usize
steps_between(start, end) ==
    IF start <= end THEN Some((end - start) % UsizeModulus) ELSE None

\* Step::forward for a signed type no wider than usize
forward(start, n) ==
    IF n < Pow(2, I8Bits)
    THEN LET wrapped == I8WrappingAddU8(start, n)
         IN  IF wrapped >= start THEN Some(wrapped) ELSE None
    ELSE None

----------------------------------------------------------------------------
(* The index range of a Space: core::ops::Range<usize> and                 *)
(* RangeInclusive<usize> as the standard library iterates them             *)

\* IntoSpace::new_exclusive: 0..steps
new_exclusive(steps) ==
    [inclusive |-> FALSE, start |-> 0, end |-> steps, exhausted |-> FALSE]

Range_is_empty(r) ==
    IF r.inclusive THEN r.exhausted \/ ~(r.start <= r.end) ELSE ~(r.start < r.end)

Range_next(r) ==
    IF Range_is_empty(r) THEN [range |-> r, val |-> None]
    ELSE IF r.inclusive /\ ~(r.start < r.end)
         THEN [range |-> [r EXCEPT !.exhausted = TRUE], val |-> Some(r.start)]
         ELSE [range |-> [r EXCEPT !.start = r.start + 1], val |-> Some(r.start)]

\* a wrong next_back: an exclusive range yields its end before stepping back
Range_next_back_untrimmed(r) ==
    IF Range_is_empty(r) THEN [range |-> r, val |-> None]
    ELSE IF r.inclusive
         THEN IF r.start < r.end
              THEN [range |-> [r EXCEPT !.end = r.end - 1], val |-> Some(r.end)]
              ELSE [range |-> [r EXCEPT !.exhausted = TRUE], val |-> Some(r.end)]
         ELSE [range |-> [r EXCEPT !.end = r.end - 1], val |-> Some(r.end)]

Range_next_back(r) ==
    IF Range_is_empty(r) THEN [range |-> r, val |-> None]
    ELSE IF r.inclusive
         THEN IF r.start < r.end
              THEN [range |-> [r EXCEPT !.end = r.end - 1], val |-> Some(r.end)]
              ELSE [range |-> [r EXCEPT !.exhausted = TRUE], val |-> Some(r.end)]
         ELSE [range |-> [r EXCEPT !.end = r.end - 1], val |-> Some(r.end - 1)]

\* IntoSpace::new_inclusive: 0..=steps, then "trim the end" with one next_back
new_inclusive(steps) ==
    Range_next_back([inclusive |-> TRUE, start |-> 0, end |-> steps, exhausted |-> FALSE]).range

\* a wrong nth: the bound check lets n = len through, as GridSpace::nth does
Range_nth_off_by_one(r, n) ==
    IF (IF r.start < r.end THEN r.end - r.start ELSE 0) < n
    THEN [range |-> [r EXCEPT !.start = r.end], val |-> None]
    ELSE [range |-> [r EXCEPT !.start = r.start + n + 1], val |-> Some(r.start + n)]

Range_nth(r, n) ==
    IF r.inclusive
    THEN IF Range_is_empty(r) THEN [range |-> r, val |-> None]
         ELSE IF r.start + n < UsizeModulus /\ r.start + n < r.end
              THEN [range |-> [r EXCEPT !.start = r.start + n + 1], val |-> Some(r.start + n)]
              ELSE IF r.start + n < UsizeModulus /\ r.start + n = r.end
                   THEN [range |-> [r EXCEPT !.start = r.end, !.exhausted = TRUE],
                         val |-> Some(r.start + n)]
                   ELSE [range |-> [r EXCEPT !.start = r.end, !.exhausted = TRUE],
                         val |-> None]
    ELSE IF r.start + n < UsizeModulus /\ r.start + n < r.end
         THEN [range |-> [r EXCEPT !.start = r.start + n + 1], val |-> Some(r.start + n)]
         ELSE [range |-> [r EXCEPT !.start = r.end], val |-> None]

Range_nth_back(r, n) ==
    IF r.inclusive
    THEN IF Range_is_empty(r) THEN [range |-> r, val |-> None]
         ELSE IF r.end - n >= 0 /\ r.end - n > r.start
              THEN [range |-> [r EXCEPT !.end = r.end - n - 1], val |-> Some(r.end - n)]
              ELSE IF r.end - n >= 0 /\ r.end - n = r.start
                   THEN [range |-> [r EXCEPT !.end = r.start, !.exhausted = TRUE],
                         val |-> Some(r.end - n)]
                   ELSE [range |-> [r EXCEPT !.end = r.start, !.exhausted = TRUE],
                         val |-> None]
    ELSE IF r.end - n >= 0 /\ r.end - n > r.start
         THEN [range |-> [r EXCEPT !.end = r.end - n - 1], val |-> Some(r.end - n - 1)]
         ELSE [range |-> [r EXCEPT !.end = r.start], val |-> None]

\* a wrong length: the last index of an inclusive range is not counted
Range_len_short(r) ==
    IF Range_is_empty(r) THEN 0 ELSE r.end - r.start

\* size_hint().0 (and len() for Range<usize>)
Range_len(r) ==
    IF Range_is_empty(r) THEN 0
    ELSE IF r.inclusive THEN r.end - r.start + 1 ELSE r.end - r.start

----------------------------------------------------------------------------
(* The element type of log_space: src/src/logspace.rs                      *)
(*                                                                         *)
(* A value of a Real type is kept exactly as coef * base^exp with coef and *)
(* base rationals and 0 <= exp < 1 a rational; a power that has a rational *)
(* value is reduced to it (base 1, exp 0).  A coef of NaN stands for a     *)
(* value that is not finite.                                               *)

RealOf(r) == [coef |-> r, base |-> FromUsize(1), exp |-> FromUsize(0)]

\* acc * b^e for b >= 2, not computed further once it exceeds cap
RECURSIVE PowFrom(_, _, _, _)
PowFrom(acc, b, e, cap) ==
    IF e = 0 \/ acc > cap THEN acc ELSE PowFrom(acc * b, b, e - 1, cap)

\* b^e, not computed further once it exceeds cap
PowCapped(b, e, cap) ==
    IF e = 0 THEN 1 ELSE IF b <= 1 THEN b ELSE PowFrom(1, b, e, cap)

\* the q-th root of the natural number m when it is a natural number
ExactRoot(m, q) ==
    IF \E r \in 0..m : PowCapped(r, q, m) = m
    THEN Some(CHOOSE r \in 0..m : PowCapped(r, q, m) = m)
    ELSE None

\* the q-th root of the rational b > 0 when it is rational
RRoot(b, q) ==
    IF ExactRoot(b[1], q).some /\ ExactRoot(b[2], q).some
    THEN Some(<<ExactRoot(b[1], q).val, ExactRoot(b[2], q).val>>)
    ELSE None

\* r^k for a natural number k
RPow(r, k) == IF IsNaN(r) THEN NaN ELSE <<Pow(r[1], k), Pow(r[2], k)>>

\* coef * base^e for a rational e >= 0, as a value
RealPower(coef, base, e) ==
    LET k    == e[1] \div e[2]
        frac == Rat(e[1] % e[2], e[2])
        c    == RMul(coef, RPow(base, k))
        root == RRoot(base, frac[2])
    IN  IF frac[1] = 0 THEN RealOf(c)
        ELSE IF root.some THEN RealOf(RMul(c, RPow(root.val, frac[1])))
        ELSE [coef |-> c, base |-> base, exp |-> frac]

\* base.powf(e) for base > 0; e = 1/0 is the reciprocal of zero, +infinity
powf(base, e) ==
    IF IsNaN(e)
    THEN IF RLess(FromUsize(1), base) THEN RealOf(NaN)
         ELSE IF base = FromUsize(1) THEN RealOf(FromUsize(1))
         ELSE RealOf(FromUsize(0))
    ELSE RealPower(FromUsize(1), base, e)

\* v.powi(x) for x >= 0
powi(v, x) ==
    IF x = 0 THEN RealOf(FromUsize(1))
    ELSE IF IsNaN(v.coef) THEN v
    ELSE RealPower(RPow(v.coef, x), v.base, RMul(v.exp, FromUsize(x)))

\* start * step.powi(x + 1): the sequence begun one step late
Logarithmic_interpolate_late(I, x) ==
    LET p == powi(I.step, x + 1) IN [p EXCEPT !.coef = RMul(I.start, p.coef)]

\* LogarithmicInterpolation::interpolate: start * step.powi(x as i32)
Logarithmic_interpolate(I, x) ==
    LET p == powi(I.step, x) IN [p EXCEPT !.coef = RMul(I.start, p.coef)]

----------------------------------------------------------------------------
(* Interpolations of a Space *)

RECURSIVE GridStep_interpolate_loop(_, _, _, _)
GridStep_interpolate_loop(axes, j, x, out) ==
    IF j > Len(axes) THEN out
    ELSE GridStep_interpolate_loop(axes, j + 1, x \div axes[j].steps,
                                   Append(out, forward(axes[j].start, x % axes[j].steps)))

RECURSIVE GridStep_interpolate_loop_rev(_, _, _, _)
GridStep_interpolate_loop_rev(axes, j, x, out) ==
    IF j = 0 THEN out
    ELSE GridStep_interpolate_loop_rev(axes, j - 1, x \div axes[j].steps,
                                       <<forward(axes[j].start, x % axes[j].steps)>> \o out)

\* a wrong interpolate: the last axis takes the least significant digit
GridStep_interpolate_last_fastest(axes, x) ==
    GridStep_interpolate_loop_rev(axes, Len(axes), x, <<>>)

\* GridStepInterpolation::interpolate: per axis, in order,
\* (x, z) = div_rem(x, steps); T::forward(start, z), not yet unwrapped
GridStep_interpolate(axes, x) == GridStep_interpolate_loop(axes, 1, x, <<>>)

RECURSIVE GridSpace_interpolate_loop(_, _, _, _)
GridSpace_interpolate_loop(axes, j, x, out) ==
    IF j > Len(axes) THEN out
    ELSE GridSpace_interpolate_loop(axes, j + 1, x \div axes[j].length,
                                    Append(out, Some(LerpEval(axes[j], x % axes[j].length))))

\* GridSpaceInterpolation::interpolate of arange_grid: per axis, in order,
\* z = x % length, x = x / length, the axis' linear strategy at z
GridSpace_interpolate(axes, x) == GridSpace_interpolate_loop(axes, 1, x, <<>>)

\* Interpolate::interpolate: the item, or a panic when an unwrap() meets None
Interpolate(I, x) ==
    IF I.kind = "Logarithmic"
    THEN [panic |-> FALSE, val |-> Logarithmic_interpolate(I, x)]
    ELSE LET out == IF I.kind = "GridStep" THEN GridStep_interpolate(I.axes, x)
                    ELSE GridSpace_interpolate(I.axes, x)
         IN  [panic |-> \E i \in 1..Len(out) : ~out[i].some,
              val   |-> [i \in 1..Len(out) |-> out[i].val]]

----------------------------------------------------------------------------
(* Construction *)

NoSeq == [type |-> "none"]
Built(s) == [panic |-> FALSE, seq |-> s]
ConstructionPanic == [panic |-> TRUE, seq |-> NoSeq]

RECURSIVE len_product(_, _, _)
len_product(steps, i, len) ==
    IF i > Len(steps) THEN len ELSE len_product(steps, i + 1, (len * steps[i]) % UsizeModulus)

\* ToGridStep::into_grid_step for Range<[T; N]> and RangeInclusive<[T; N]>
into_grid_step(start, end, inclusive) ==
    LET between == [i \in 1..Len(start) |-> steps_between(start[i], end[i])]
        steps   == [i \in 1..Len(start) |->
                       (between[i].val + (IF inclusive THEN 1 ELSE 0)) % UsizeModulus]
        len     == len_product(steps, 1, 1)
    IN  IF \E i \in 1..Len(start) : ~between[i].some
        THEN ConstructionPanic          \* expect("grid size cannot be infinite")
        ELSE IF \E i \in 1..Len(start) : steps[i] = 0
        THEN ConstructionPanic          \* StrengthReducedUsize::new(0)
        ELSE Built([type        |-> "Space",
                    interpolate |-> [kind |-> "GridStep",
                                     axes |-> [i \in 1..Len(start) |->
                                                  [start |-> start[i], steps |-> steps[i]]]],
                    range       |-> IF inclusive THEN new_inclusive(len)
                                    ELSE new_exclusive(len)])

\* Linear::new((start..end).into_arange(step)): the linear strategy of one axis
\* with its derived step count ceil((end - start) / step), None when that is
\* not a non-negative integer
into_arange(start, end, step) ==
    LET length == RCeilToUsize(RDiv(RSub(end, start), step))
    IN  IF length.some
        THEN Some([start |-> start, step |-> step, length |-> length.val])
        ELSE None

\* a wrong into_arange_grid: the length is that of the first axis alone
into_arange_grid_first_axis(start, end, step) ==
    LET lerps == [i \in 1..Len(start) |-> into_arange(start[i], end[i], step[i])]
    IN  IF \E i \in 1..Len(start) : ~lerps[i].some
        THEN ConstructionPanic
        ELSE Built([type        |-> "Space",
                    interpolate |-> [kind |-> "GridSpace",
                                     axes |-> [i \in 1..Len(start) |-> lerps[i].val]],
                    range       |-> new_exclusive(lerps[1].val.length)])

\* ToArangeGrid::into_arange_grid: step is one step size per axis
into_arange_grid(start, end, step) ==
    LET lerps == [i \in 1..Len(start) |-> into_arange(start[i], end[i], step[i])]
        len   == len_product([i \in 1..Len(start) |-> lerps[i].val.length], 1, 1)
    IN  IF \E i \in 1..Len(start) : ~lerps[i].some
        THEN ConstructionPanic
        ELSE Built([type        |-> "Space",
                    interpolate |-> [kind |-> "GridSpace",
                                     axes |-> [i \in 1..Len(start) |-> lerps[i].val]],
                    range       |-> new_exclusive(len)])

\* grid_space, grid_step and arange_grid applied to their arguments
Construct(c) ==
    CASE c.kind = "grid_space" ->
           Built(IF c.scalar
                 THEN into_grid_space_scalar(c.start, c.end, c.steps_each, c.inclusive)
                 ELSE into_grid_space_array(c.start, c.end, c.steps, c.inclusive))
      [] c.kind = "grid_step" -> into_grid_step(c.start, c.end, c.inclusive)
      [] c.kind = "arange_grid" ->
           into_arange_grid(c.start, c.end,
                            IF c.scalar THEN [i \in 1..Len(c.start) |-> c.step_each]
                            ELSE c.step)

----------------------------------------------------------------------------
(* The arguments the model draws *)

Zeros(n) == [i \in 1..n |-> FromUsize(0)]
\* the end of axis i is i: [1.0], [1.0, 2.0], ... as in the documented examples
Ends(n) == [i \in 1..n |-> FromUsize(i)]
StepSizes == {Rat(1, 2), Rat(1, 1)}

GridSpaceConfigs ==
    UNION {
        {[kind |-> "grid_space", inclusive |-> inc, scalar |-> FALSE,
          start |-> Zeros(n), end |-> Ends(n), steps |-> st] :
            inc \in BOOLEAN, st \in [1..n -> 0..MaxSteps]}
        \cup
        {[kind |-> "grid_space", inclusive |-> inc, scalar |-> TRUE,
          start |-> Zeros(n), end |-> Ends(n), steps_each |-> st] :
            inc \in BOOLEAN, st \in 0..MaxSteps}
        : n \in 1..MaxAxes}

GridStepConfigs ==
    UNION {
        {[kind |-> "grid_step", inclusive |-> inc,
          start |-> [i \in 1..n |-> 0], end |-> e] :
            inc \in BOOLEAN, e \in [1..n -> (-1)..MaxSteps]}
        : n \in 1..MaxAxes}

ArangeGridConfigs ==
    UNION {
        {[kind |-> "arange_grid", scalar |-> FALSE,
          start |-> Zeros(n), end |-> Ends(n), step |-> st] : st \in [1..n -> StepSizes]}
        \cup
        {[kind |-> "arange_grid", scalar |-> TRUE,
          start |-> Zeros(n), end |-> Ends(n), step_each |-> st] : st \in StepSizes}
        : n \in 1..MaxAxes}

\* the total length a constructed sequence starts with
InitialLen(s) == IF s.type = "GridSpace" THEN s.y ELSE Range_len(s.range)

\* an inclusive linear space needs steps >= 1 on every axis (steps - 1 intervals)
WellFormed(c) ==
    c.kind = "grid_space" /\ c.inclusive =>
        IF c.scalar THEN c.steps_each >= 1 ELSE \A i \in 1..Len(c.steps) : c.steps[i] >= 1

\* the examples of the documentation and the tests, whatever the bounds
\* grid_space([0.0, 0.0]..[1.0, 2.0], [2, 4])
GridSpaceExample ==
    [kind |-> "grid_space", inclusive |-> FALSE, scalar |-> FALSE,
     start |-> Zeros(2), end |-> Ends(2), steps |-> <<2, 4>>]
\* grid_step([0, 0]..[2, 4])
GridStepExample ==
    [kind |-> "grid_step", inclusive |-> FALSE, start |-> <<0, 0>>, end |-> <<2, 4>>]
\* grid_step([0, 0]..=[1, 3])
GridStepInclusiveExample ==
    [kind |-> "grid_step", inclusive |-> TRUE, start |-> <<0, 0>>, end |-> <<1, 3>>]
\* arange_grid([0.0, 0.0]..[1.0, 2.0], 0.5)
ArangeGridExample ==
    [kind |-> "arange_grid", scalar |-> TRUE,
     start |-> Zeros(2), end |-> Ends(2), step_each |-> Rat(1, 2)]

Examples ==
    {GridSpaceExample, GridStepExample, GridStepInclusiveExample, ArangeGridExample}

Configs ==
    {c \in GridSpaceConfigs \cup GridStepConfigs \cup ArangeGridConfigs :
        /\ WellFormed(c)
        /\ Construct(c).panic \/ InitialLen(Construct(c).seq) <= MaxTotal}
    \cup Examples

\* n for nth / nth_back on a sequence with len elements left
NthArgs(len) == (0..MaxSkip) \cup {len, len + 1}

----------------------------------------------------------------------------
(* Initial state: the sequence as constructed, and its clone *)

NoCall == [op |-> "new", n |-> 0, idx |-> None, val |-> None, before |-> NoSeq]

Init ==
    /\ cfg \in Configs
    /\ seq = Construct(cfg).seq
    /\ panicked = Construct(cfg).panic
    /\ ret = NoCall
    /\ front = <<>>
    /\ back = <<>>
    /\ rev = Construct(cfg).seq
    /\ actual_rev = <<>>

Yielded(idx, item) == [idx |-> idx, item |-> item]

\* what one call does: the object afterwards, the flat index it evaluated,
\* the value it returned, and whether it panicked instead of returning
Outcome(s, idx, val) == [seq |-> s, idx |-> idx, val |-> val, panic |-> FALSE]
PanicOutcome(s) == [seq |-> s, idx |-> None, val |-> None, panic |-> TRUE]

----------------------------------------------------------------------------
(* GridSpace: Iterator and DoubleEndedIterator *)

\* a wrong next: the cursor is advanced before its value is taken
GridSpace_next_op_preincrement(s) ==
    IF s.x < s.y
    THEN Outcome([s EXCEPT !.x = s.x + 1], Some(s.x + 1),
                 Some(GridSpaceItem(s, get_indices(s.x + 1, s.steps))))
    ELSE Outcome(s, None, None)

\* GridSpace::next
GridSpace_next_op(s) ==
    IF s.x < s.y
    THEN Outcome([s EXCEPT !.x = s.x + 1], Some(s.x),
                 Some(GridSpaceItem(s, get_indices(s.x, s.steps))))
    ELSE Outcome(s, None, None)

\* GridSpace::next_back
GridSpace_next_back_op(s) ==
    IF s.x < s.y
    THEN Outcome([s EXCEPT !.y = s.y - 1], Some(s.y - 1),
                 Some(GridSpaceItem(s, get_indices(s.y - 1, s.steps))))
    ELSE Outcome(s, None, None)

\* GridSpace::nth(n), diff being the value self.y - self.x evaluated to
GridSpace_nth_op(s, n, diff) ==
    IF diff < n
    THEN Outcome([s EXCEPT !.x = s.y], None, None)
    ELSE IF get_indices_panics(s.steps)
    THEN PanicOutcome(s)
    ELSE Outcome([s EXCEPT !.x = s.x + n + 1], Some(s.x + n),
                 Some(GridSpaceItem(s, get_indices(s.x + n, s.steps))))

----------------------------------------------------------------------------
(* Space: Iterator and DoubleEndedIterator *)

\* self.range.<op>(..).map(|x| self.interpolate.interpolate(x)), r being what
\* the range operation did
Space_map(s, r) ==
    LET v == IF r.val.some THEN Interpolate(s.interpolate, r.val.val)
             ELSE [panic |-> FALSE, val |-> <<>>]
    IN  IF v.panic THEN PanicOutcome([s EXCEPT !.range = r.range])
        ELSE Outcome([s EXCEPT !.range = r.range], r.val,
                     IF r.val.some THEN Some(v.val) ELSE None)

\* Space::next
Space_next_op(s) == Space_map(s, Range_next(s.range))
\* Space::next_back
Space_next_back_op(s) == Space_map(s, Range_next_back(s.range))
\* Space::nth
Space_nth_op(s, n) == Space_map(s, Range_nth(s.range, n))
\* Space::nth_back
Space_nth_back_op(s, n) == Space_map(s, Range_nth_back(s.range, n))

\* Space::size_hint().0, Space::len
Space_len(s) == Range_len(s.range)

----------------------------------------------------------------------------
(* Calls on the sequence *)

\* a call on seq with outcome o; what it yields is noted at its end of the sequence
Call(op, n, o, at_front) ==
    /\ seq' = o.seq
    /\ panicked' = o.panic
    /\ ret' = [op |-> op, n |-> n, idx |-> o.idx, val |-> o.val, before |-> seq]
    /\ front' = IF o.val.some /\ at_front
                THEN Append(front, Yielded(o.idx.val, o.val.val)) ELSE front
    /\ back' = IF o.val.some /\ ~at_front
               THEN Append(back, Yielded(o.idx.val, o.val.val)) ELSE back
    /\ UNCHANGED <<cfg, rev, actual_rev>>

GridSpace_next ==
    /\ ~panicked
    /\ seq.type = "GridSpace"
    /\ Call("next", 0, GridSpace_next_op(seq), TRUE)

GridSpace_next_back ==
    /\ ~panicked
    /\ seq.type = "GridSpace"
    /\ Call("next_back", 0, GridSpace_next_back_op(seq), FALSE)

\* When x > y the subtraction self.y - self.x overflows: a build with overflow
\* checks panics, a build without them wraps.
GridSpace_nth ==
    /\ ~panicked
    /\ seq.type = "GridSpace"
    /\ \E n \in NthArgs(IF seq.x <= seq.y THEN seq.y - seq.x ELSE 0) :
          /\ seq.x + n + 1 <= seq.y + MaxOvershoot
          /\ \/ /\ GridSpace_len_overflows(seq)
                /\ Call("nth", n, PanicOutcome(seq), TRUE)
             \/ Call("nth", n, GridSpace_nth_op(seq, n, GridSpace_len(seq)), TRUE)

Space_next ==
    /\ ~panicked
    /\ seq.type = "Space"
    /\ Call("next", 0, Space_next_op(seq), TRUE)

Space_next_back ==
    /\ ~panicked
    /\ seq.type = "Space"
    /\ Call("next_back", 0, Space_next_back_op(seq), FALSE)

Space_nth ==
    /\ ~panicked
    /\ seq.type = "Space"
    /\ \E n \in NthArgs(Space_len(seq)) : Call("nth", n, Space_nth_op(seq, n), TRUE)

Space_nth_back ==
    /\ ~panicked
    /\ seq.type = "Space"
    /\ \E n \in NthArgs(Space_len(seq)) : Call("nth_back", n, Space_nth_back_op(seq, n), FALSE)

----------------------------------------------------------------------------
(* check_double_ended_iter: seq is collected with next, its clone rev with   *)
(* rev(), that is with next_back                                            *)

Rev_next_back ==
    /\ ~panicked
    /\ rev.type \in {"GridSpace", "Space"}
    /\ LET o == IF rev.type = "GridSpace" THEN GridSpace_next_back_op(rev)
                ELSE Space_next_back_op(rev)
       IN  /\ rev' = o.seq
           /\ panicked' = o.panic
           /\ actual_rev' = IF o.val.some THEN Append(actual_rev, o.val.val)
                            ELSE actual_rev
    /\ UNCHANGED <<cfg, seq, ret, front, back>>

----------------------------------------------------------------------------
(* Specifications *)

Next ==
    \/ GridSpace_next
    \/ GridSpace_next_back
    \/ GridSpace_nth
    \/ Space_next
    \/ Space_next_back
    \/ Space_nth
    \/ Space_nth_back

\* every call the sequences offer, in any order
Spec == Init /\ [][Next]_vars

NextIter ==
    \/ GridSpace_next
    \/ GridSpace_next_back
    \/ Space_next
    \/ Space_next_back

\* any interleaving of next and next_back
SpecIter == Init /\ [][NextIter]_vars

NextCheck ==
    \/ GridSpace_next
    \/ Space_next
    \/ Rev_next_back

\* check_double_ended_iter: one clone collected forwards, the other backwards
SpecCheck == Init /\ [][NextCheck]_vars

----------------------------------------------------------------------------
(* Properties *)

\* the length the sequence was constructed with
total_steps == InitialLen(Construct(cfg).seq)

IsGridSpace == ~panicked /\ seq.type = "GridSpace"
IsSpace == ~panicked /\ seq.type = "Space"

\* C1: the cursors of a GridSpace satisfy 0 <= x <= y <= total_steps in every
\* state reachable by next, next_back and nth(n) calls, so that len() = y - x
\* never underflows.
C1_CursorsOrdered ==
    seq.type = "GridSpace" => 0 <= seq.x /\ seq.x <= seq.y /\ seq.y <= total_steps

\* C2: GridSpace::nth(n) called with n >= len() (n = len() and empty grids
\* included) returns None, leaves the sequence exhausted with len() = 0, does
\* not panic and evaluates no flat index.
C2_NthPastEndReturnsNone ==
    (/\ ret.op = "nth"
     /\ ret.before.type = "GridSpace"
     /\ ~GridSpace_len_overflows(ret.before)
     /\ ret.n >= GridSpace_len(ret.before))
    => (/\ ~panicked
        /\ ~ret.val.some
        /\ ~ret.idx.some
        /\ ~GridSpace_len_overflows(seq)
        /\ GridSpace_len(seq) = 0)

----------------------------------------------------------------------------
(* What the claims are stated in *)

Items(list) == [i \in 1..Len(list) |-> list[i].item]
Reverse(list) == [i \in 1..Len(list) |-> list[Len(list) + 1 - i]]
YieldedSet == {front[i] : i \in 1..Len(front)} \cup {back[i] : i \in 1..Len(back)}

RECURSIVE AxisProduct(_)
AxisProduct(counts) ==
    IF counts = <<>> THEN 1 ELSE Head(counts) * AxisProduct(Tail(counts))

\* the per-axis step counts grid_space was given
DeclaredSteps(c) ==
    IF c.scalar THEN [i \in 1..Len(c.start) |-> c.steps_each] ELSE c.steps

\* the per-axis cardinalities of a grid_step range
Radix(c) ==
    [i \in 1..Len(c.start) |-> c.end[i] - c.start[i] + (IF c.inclusive THEN 1 ELSE 0)]

\* ceil(q) of a rational q >= 0
Ceil(q) == CHOOSE m \in 0..(q[1] + 1) : m * q[2] >= q[1] /\ (m - 1) * q[2] < q[1]

\* the per-axis step counts of an arange_grid
ArangeCounts(c) ==
    [i \in 1..Len(c.start) |->
        Ceil(RDiv(RSub(c.end[i], c.start[i]), IF c.scalar THEN c.step_each ELSE c.step[i]))]

\* the number of items the arguments describe
ExpectedTotal(c) ==
    CASE c.kind = "grid_space" -> AxisProduct(DeclaredSteps(c))
      [] c.kind = "grid_step" -> AxisProduct(Radix(c))
      [] c.kind = "arange_grid" -> AxisProduct(ArangeCounts(c))

SeqLen(s) == IF s.type = "GridSpace" THEN GridSpace_len(s) ELSE Space_len(s)
next_op(s) == IF s.type = "GridSpace" THEN GridSpace_next_op(s) ELSE Space_next_op(s)
next_back_op(s) ==
    IF s.type = "GridSpace" THEN GridSpace_next_back_op(s) ELSE Space_next_back_op(s)

\* interpolate(k) of the sequence
ItemAt(s, k) ==
    IF s.type = "GridSpace" THEN GridSpaceItem(s, get_indices(k, s.steps))
    ELSE Interpolate(s.interpolate, k).val

\* how many more times next returns an element
RECURSIVE StillToYield(_)
StillToYield(s) ==
    LET o == next_op(s) IN IF o.val.some THEN 1 + StillToYield(o.seq) ELSE 0

\* the outcome of the last of k calls of next (next_back), k >= 1
RECURSIVE NextTimes(_, _)
NextTimes(s, k) ==
    LET o == Space_next_op(s) IN IF k = 1 THEN o ELSE NextTimes(o.seq, k - 1)
RECURSIVE NextBackTimes(_, _)
NextBackTimes(s, k) ==
    LET o == Space_next_back_op(s) IN IF k = 1 THEN o ELSE NextBackTimes(o.seq, k - 1)

\* digit i of k, the last axis least significant
RowMajorDigit(k, counts, i) ==
    (k \div AxisProduct(SubSeq(counts, i + 1, Len(counts)))) % counts[i]
\* digit i of k, axis 0 least significant
ColumnMajorDigit(k, counts, i) ==
    (k \div AxisProduct(SubSeq(counts, 1, i - 1))) % counts[i]

Half == Rat(1, 2)
One == Rat(1, 1)
Zero == Rat(0, 1)
OneAndHalf == Rat(3, 2)

\* test_grid_space_exclusive: the expected items of GridSpaceExample
RowMajorExpected ==
    << <<Zero, Zero>>, <<Zero, Half>>, <<Zero, One>>, <<Zero, OneAndHalf>>,
       <<Half, Zero>>, <<Half, Half>>, <<Half, One>>, <<Half, OneAndHalf>> >>

\* the crate documentation: the items it lists for GridSpaceExample
CrateDocExpected ==
    << <<Zero, Zero>>, <<Half, Zero>>, <<Zero, Half>>, <<Half, Half>>,
       <<Zero, One>>, <<Half, One>>, <<Zero, OneAndHalf>>, <<Half, OneAndHalf>> >>

\* the items the documentation and the tests list for both grid_step examples
GridStepExpected ==
    << <<0, 0>>, <<1, 0>>, <<0, 1>>, <<1, 1>>, <<0, 2>>, <<1, 2>>, <<0, 3>>, <<1, 3>> >>

----------------------------------------------------------------------------

\* C3: under any interleaving of next and next_back, next yields
\* interpolate(lo) for lo = 0, 1, 2, ... and next_back yields interpolate(hi - 1)
\* for hi = N, N - 1, ...; no index is produced at both ends, and a call
\* returns end-of-sequence exactly when all N indices have been produced.
C3_EachIndexOnce ==
    (IsGridSpace \/ IsSpace) =>
        /\ \A i \in 1..Len(front) :
              front[i].idx = i - 1 /\ front[i].item = ItemAt(seq, i - 1)
        /\ \A i \in 1..Len(back) :
              /\ back[i].idx = ExpectedTotal(cfg) - i
              /\ back[i].item = ItemAt(seq, ExpectedTotal(cfg) - i)
        /\ Len(front) + Len(back) <= ExpectedTotal(cfg)
        /\ (ret.op \in {"next", "next_back"} /\ ~ret.val.some)
              => Len(front) + Len(back) = ExpectedTotal(cfg)

C3_Witness ==
    /\ IsGridSpace
    /\ Len(cfg.start) = 2
    /\ Len(front) >= 2
    /\ Len(back) >= 2
    /\ ret.op = "next_back"
    /\ ~ret.val.some

\* C4: len() (and size_hint) of a grid_space, grid_step or arange_grid
\* sequence is the exact number of elements still to be yielded: the total
\* length at first, one less after every next or next_back that yields, and 0
\* exactly when the sequence is exhausted.
C4_LenIsExact ==
    (IsGridSpace \/ IsSpace) =>
        /\ seq.type = "GridSpace" => ~GridSpace_len_overflows(seq)
        /\ SeqLen(seq) = StillToYield(seq)
        /\ SeqLen(seq) = ExpectedTotal(cfg) - Len(front) - Len(back)
        /\ ret.op = "new" => SeqLen(seq) = ExpectedTotal(cfg)
        /\ (ret.op \in {"next", "next_back"} /\ ret.val.some)
              => SeqLen(seq) = SeqLen(ret.before) - 1
        /\ (ret.op \in {"next", "next_back"} /\ ~ret.val.some)
              => SeqLen(seq) = 0 /\ SeqLen(ret.before) = 0
        /\ SeqLen(seq) = 0 <=> ~next_op(seq).val.some
        /\ SeqLen(seq) = 0 <=> ~next_back_op(seq).val.some

C4_Witness ==
    /\ IsSpace
    /\ cfg = GridStepInclusiveExample
    /\ Len(front) = 4
    /\ Len(back) = 4
    /\ SeqLen(seq) = 0

\* C5: on a Space over a Range<usize>, nth(k) with k <= len() returns what the
\* last of k + 1 calls of next returns and leaves the same remaining sequence;
\* nth_back(k) likewise with next_back.
C5_NthIsRepeatedNext ==
    /\ (/\ ret.op = "nth"
        /\ ret.before.type = "Space"
        /\ ~ret.before.range.inclusive
        /\ ret.n <= Space_len(ret.before))
       => LET o == NextTimes(ret.before, ret.n + 1)
          IN  ret.val = o.val /\ seq = o.seq /\ panicked = o.panic
    /\ (/\ ret.op = "nth_back"
        /\ ret.before.type = "Space"
        /\ ~ret.before.range.inclusive
        /\ ret.n <= Space_len(ret.before))
       => LET o == NextBackTimes(ret.before, ret.n + 1)
          IN  ret.val = o.val /\ seq = o.seq /\ panicked = o.panic

C5_Witness ==
    /\ ret.op = "nth"
    /\ ret.before.type = "Space"
    /\ ~ret.before.range.inclusive
    /\ ret.n = 1
    /\ Space_len(ret.before) >= 3
    /\ ret.before.range.start >= 1
    /\ ret.val.some

\* C6: a grid_space, grid_step or arange_grid sequence collected forwards, and
\* its clone collected with rev() and then reversed, give the same list.
C6_ForwardEqualsReversedBackward ==
    ((IsGridSpace \/ IsSpace) /\ SeqLen(seq) = 0 /\ SeqLen(rev) = 0)
        => /\ Len(front) = ExpectedTotal(cfg)
           /\ Items(front) = Reverse(actual_rev)

C6_Witness ==
    /\ IsSpace
    /\ cfg = ArangeGridExample
    /\ SeqLen(seq) = 0
    /\ SeqLen(rev) = 0
    /\ Len(actual_rev) = 8

C8_Axis0Fastest ==
    cfg.kind = "grid_space" =>
        \A e \in YieldedSet :
            e.idx < ExpectedTotal(cfg) =>
                /\ e.item[1] = LerpEval(seq.lerps[1], e.idx % seq.steps[1])
                /\ cfg = GridSpaceExample => e.item = CrateDocExpected[e.idx + 1]

\* C9: the item grid_step emits at flat index k has, on axis i, the value
\* forward(start_i, d_i), d_i being the mixed-radix digits of k with axis 0 the
\* least significant and radix_i = steps_between(start_i, end_i) (+ 1 when
\* inclusive); every combination of per-axis values is emitted exactly once;
\* grid_step([0,0]..[2,4]) and grid_step([0,0]..=[1,3]) yield [0,0], [1,0],
\* [0,1], [1,1], [0,2], [1,2], [0,3], [1,3].
C9_GridStepAxis0Fastest ==
    (cfg.kind = "grid_step" /\ seq.type = "Space") =>
        /\ \A e \in YieldedSet :
              /\ \A i \in 1..Len(cfg.start) :
                    e.item[i] = cfg.start[i] + ColumnMajorDigit(e.idx, Radix(cfg), i)
              /\ cfg \in {GridStepExample, GridStepInclusiveExample}
                    => e.item = GridStepExpected[e.idx + 1]
        /\ (Len(front) + Len(back) = ExpectedTotal(cfg))
              => /\ {e.item : e \in YieldedSet}
                      = {t \in [1..Len(cfg.start) -> (-1)..(MaxSteps + 1)] :
                            \A i \in 1..Len(cfg.start) :
                                cfg.start[i] <= t[i] /\ t[i] < cfg.start[i] + Radix(cfg)[i]}
                 /\ Cardinality({e.item : e \in YieldedSet}) = ExpectedTotal(cfg)

C9_Witness ==
    /\ cfg = GridStepInclusiveExample
    /\ Items(front) = GridStepExpected

\* C10: the total length of a grid_space sequence is the product of its
\* per-axis step counts (steps^N for one broadcast step count); it is fixed at
\* construction, and no call changes it or the per-axis step counts.
C10_TotalIsProduct ==
    cfg.kind = "grid_space" =>
        /\ seq.steps = DeclaredSteps(cfg)
        /\ ret.op = "new" => seq.x = 0 /\ seq.y = AxisProduct(DeclaredSteps(cfg))
        /\ cfg.scalar => seq.y + Len(back) = Pow(cfg.steps_each, Len(cfg.start))
        /\ seq.y + Len(back) = AxisProduct(seq.steps)

C10_Witness ==
    /\ cfg.kind = "grid_space"
    /\ cfg.scalar
    /\ Len(cfg.start) = 2
    /\ cfg.steps_each = 2
    /\ Len(front) >= 1
    /\ Len(back) >= 2

----------------------------------------------------------------------------
(* lin_space: src/src/linspace.rs, src/src/lerp.rs                          *)
(*                                                                         *)
(* The element type T is either a float, modelled as an exact rational, or *)
(* an integer (i8), modelled as a rational <<n, 1>> whose division         *)
(* truncates towards zero and panics on a zero divisor.                    *)

\* largest step count drawn for lin_space and log_space
MaxLinSteps == 3

\* n / d of a primitive integer type, d # 0
TruncDiv(n, d) ==
    LET q == Abs(n) \div Abs(d)
    IN  IF (n < 0) = (d < 0) THEN q ELSE -q

\* T::from_usize(i): None when i does not fit T
T_from_usize(elem, i) ==
    IF elem = "int" /\ i > I8Max THEN None ELSE Some(FromUsize(i))

\* a / b in T: None stands for the panic of an integer division by zero
T_div(elem, a, b) ==
    IF elem = "int"
    THEN IF b[1] = 0 THEN None ELSE Some(<<TruncDiv(a[1], b[1]), 1>>)
    ELSE Some(RDiv(a, b))

\* Lerp::new_usize(x0..=x1, y0..=y1), None when an unwrap() panics
Lerp_new_usize(elem, x0, x1, y0, y1) ==
    IF T_from_usize(elem, x0).some /\ T_from_usize(elem, x1).some
    THEN Some([x0 |-> T_from_usize(elem, x0).val, x1 |-> T_from_usize(elem, x1).val,
               y0 |-> y0, y1 |-> y1])
    ELSE None

\* a wrong lerp: the two ends of the target range are exchanged
Lerp_lerp_swapped(elem, l, x) ==
    T_div(elem, RAdd(RMul(l.y1, RSub(l.x1, x)), RMul(l.y0, RSub(x, l.x0))),
          RSub(l.x1, l.x0))

\* Lerp::lerp: ((y0 * (x1 - x)) + (y1 * (x - x0))) / (x1 - x0)
Lerp_lerp(elem, l, x) ==
    T_div(elem, RAdd(RMul(l.y0, RSub(l.x1, x)), RMul(l.y1, RSub(x, l.x0))),
          RSub(l.x1, l.x0))

\* LerpIterPrim::new(0..=x1, start..=end, 0..steps)
LerpIterPrim_new(elem, x1, start, end, steps) ==
    LET lerp == Lerp_new_usize(elem, 0, x1, start, end)
    IN  IF lerp.some
        THEN Built([type |-> "LinSpace", elem |-> elem, lerp |-> lerp.val,
                    over |-> new_exclusive(steps)])
        ELSE ConstructionPanic

\* IntoLinSpace::into_lin_space for RangeInclusive<T> and Range<T>.  steps - 1
\* overflows for steps = 0: a build with overflow checks panics, a build
\* without them wraps.
into_lin_space(elem, start, end, steps, inclusive, overflow_checks) ==
    IF inclusive
    THEN IF steps = 0 /\ overflow_checks THEN ConstructionPanic
         ELSE LerpIterPrim_new(elem, (steps - 1) % UsizeModulus, start, end, steps)
    ELSE LerpIterPrim_new(elem, steps, start, end, steps)

\* the object left behind by a method that takes self by value
Consumed == [type |-> "consumed"]

\* LerpIterPrim::next
LerpIterPrim_next_op(s) ==
    LET r == Range_next(s.over)
        x == T_from_usize(s.elem, r.val.val)
        v == Lerp_lerp(s.elem, s.lerp, x.val)
    IN  IF ~r.val.some THEN Outcome([s EXCEPT !.over = r.range], None, None)
        ELSE IF ~x.some \/ ~v.some THEN PanicOutcome([s EXCEPT !.over = r.range])
        ELSE Outcome([s EXCEPT !.over = r.range], r.val, Some(v.val))

\* LerpIterPrim::last: over.last() is the last index still in the range
LerpIterPrim_last_op(s) ==
    LET r == Range_next_back(s.over)
        x == T_from_usize(s.elem, r.val.val)
        v == Lerp_lerp(s.elem, s.lerp, x.val)
    IN  IF ~r.val.some THEN Outcome(Consumed, None, None)
        ELSE IF ~x.some \/ ~v.some THEN PanicOutcome(Consumed)
        ELSE Outcome(Consumed, r.val, Some(v.val))

\* LerpIterPrim::size_hint
LerpIterPrim_size_hint(s) == <<Range_len(s.over), Some(Range_len(s.over))>>

\* LerpIterPrim::count
LerpIterPrim_count_op(s) == Outcome(Consumed, None, Some(Range_len(s.over)))

----------------------------------------------------------------------------
(* log_space: src/src/logspace.rs (construction)                           *)

\* ToLogSpace::into_log_space for Range<T> and RangeInclusive<T>, T a float
into_log_space(start, end, steps, inclusive, overflow_checks) ==
    LET n    == IF inclusive THEN (steps - 1) % UsizeModulus ELSE steps
        step == powf(RDiv(end, start), RDiv(FromUsize(1), FromUsize(n)))
    IN  IF inclusive /\ steps = 0 /\ overflow_checks THEN ConstructionPanic
        ELSE Built([type        |-> "Space",
                    interpolate |-> [kind |-> "Logarithmic", start |-> start, step |-> step],
                    range       |-> IF inclusive THEN new_inclusive(steps)
                                    ELSE new_exclusive(steps)])

----------------------------------------------------------------------------
(* The one-dimensional spaces the model draws *)

LinStarts == {FromUsize(0), Rat(-1, 1)}
LinEnds == {FromUsize(0), FromUsize(1), FromUsize(3), Rat(-1, 1)}

LinSpaceConfigs ==
    {[kind |-> "lin_space", elem |-> el, start |-> a, end |-> b, steps |-> n,
      inclusive |-> inc, overflow_checks |-> oc] :
        el \in {"float", "int"}, a \in LinStarts, b \in LinEnds, n \in 0..MaxLinSteps,
        inc \in BOOLEAN, oc \in BOOLEAN}

LogSpaceConfigs ==
    {[kind |-> "log_space", elem |-> "float", start |-> FromUsize(1), end |-> b,
      steps |-> n, inclusive |-> inc, overflow_checks |-> oc] :
        b \in {FromUsize(2), FromUsize(8)}, n \in 0..MaxLinSteps,
        inc \in BOOLEAN, oc \in BOOLEAN}

\* lin_space and log_space applied to their arguments
Construct1D(c) ==
    IF c.kind = "lin_space"
    THEN into_lin_space(c.elem, c.start, c.end, c.steps, c.inclusive, c.overflow_checks)
    ELSE into_log_space(c.start, c.end, c.steps, c.inclusive, c.overflow_checks)

InitLin ==
    /\ cfg \in LinSpaceConfigs \cup LogSpaceConfigs
    /\ seq = Construct1D(cfg).seq
    /\ panicked = Construct1D(cfg).panic
    /\ ret = NoCall
    /\ front = <<>>
    /\ back = <<>>
    /\ rev = NoSeq
    /\ actual_rev = <<>>

\* a call that takes the sequence by value and returns val
CallByValue(op, o) ==
    /\ seq' = o.seq
    /\ panicked' = o.panic
    /\ ret' = [op |-> op, n |-> 0, idx |-> o.idx, val |-> o.val, before |-> seq]
    /\ UNCHANGED <<cfg, front, back, rev, actual_rev>>

LerpIterPrim_next ==
    /\ ~panicked
    /\ seq.type = "LinSpace"
    /\ Call("next", 0, LerpIterPrim_next_op(seq), TRUE)

LerpIterPrim_count ==
    /\ ~panicked
    /\ seq.type = "LinSpace"
    /\ CallByValue("count", LerpIterPrim_count_op(seq))

LerpIterPrim_last ==
    /\ ~panicked
    /\ seq.type = "LinSpace"
    /\ CallByValue("last", LerpIterPrim_last_op(seq))

NextLin ==
    \/ LerpIterPrim_next
    \/ LerpIterPrim_count
    \/ LerpIterPrim_last

\* a lin_space (or a constructed log_space) and the calls of LerpIterPrim
SpecLin == InitLin /\ [][NextLin]_vars

----------------------------------------------------------------------------
(* Properties of lin_space and log_space *)

IsLinSpace == cfg.kind = "lin_space"
IsLogSpace == cfg.kind = "log_space"

\* lin_space is called within its documented domain: any step count for an
\* exclusive range, at least one step for an inclusive range
LinInDomain == IsLinSpace /\ (cfg.inclusive => cfg.steps >= 1)

\* the values lin_space has yielded so far, in order
LinItems == [i \in 1..Len(front) |-> front[i].item]

\* C11: lin_space(range, n) yields exactly n elements: count() and size_hint
\* report n less the elements already taken, iteration ends only after n
\* elements and never panics before, and n = 0 yields nothing.
C11_ExactCount ==
    LinInDomain =>
        /\ ~panicked
        /\ Len(front) <= cfg.steps
        /\ seq.type = "LinSpace" =>
               LerpIterPrim_size_hint(seq) =
                   <<cfg.steps - Len(front), Some(cfg.steps - Len(front))>>
        /\ ret.op = "count" => ret.val = Some(cfg.steps - Len(front))
        /\ ret.op = "next" /\ ~ret.val.some => Len(front) = cfg.steps
        /\ ret.op = "last" /\ ~ret.val.some => Len(front) = cfg.steps

\* C12: for n >= 1, lin_space(a..=b, n) starts at a, ends at b (as the n-th
\* element of the iteration and as last()), and no call panics.
C12_InclusiveEndpoints ==
    LinInDomain /\ cfg.inclusive =>
        /\ ~panicked
        /\ front # <<>> => LinItems[1] = cfg.start
        /\ Len(front) = cfg.steps => LinItems[cfg.steps] = cfg.end
        /\ ret.op = "last" /\ Len(front) < cfg.steps => ret.val = Some(cfg.end)

\* the interpolation of the sequence evaluated at index i
LinInterpolateAt(i) ==
    LET s == Construct1D(cfg).seq
    IN  Lerp_lerp(s.elem, s.lerp, T_from_usize(s.elem, i).val)

LinearFormula(elem, start, end, divisor, i) ==
    LET step == T_div(elem, RSub(end, start), FromUsize(divisor))
    IN  IF step.some THEN Some(RAdd(start, RMul(FromUsize(i), step.val))) ELSE None

\* C14: the i-th element of a linear space is start + T::from(i) * step, with
\* step = (end - start) / steps for an exclusive and (end - start) / (steps - 1)
\* for an inclusive range, in T's own arithmetic.
C14_LinearFormula ==
    LinInDomain =>
        \A k \in 1..Len(front) :
            LET expected == LinearFormula(cfg.elem, cfg.start, cfg.end,
                                          IF cfg.inclusive THEN cfg.steps - 1
                                          ELSE cfg.steps,
                                          front[k].idx)
            IN  expected.some => front[k].item = expected.val

\* C15: lin_space(a..=b, 0) and log_space(a..=b, 0) fail at construction: no
\* sequence is returned.
C15_ZeroStepsFailFast ==
    (IsLinSpace \/ IsLogSpace) /\ cfg.inclusive /\ cfg.steps = 0 =>
        panicked /\ seq = NoSeq

----------------------------------------------------------------------------
(* Arange: src/src/arange.rs *)

\* next is called while at most this many elements have been yielded
MaxArangeYield == 6

\* Arange::new(start..end, step)
Arange_new(start, end, step) ==
    Built([type |-> "Arange", start |-> start, end |-> end, step_size |-> step,
           step |-> FromUsize(0)])

\* self.start + self.step * self.step_size
Arange_x(s) == RAdd(s.start, RMul(s.step, s.step_size))

\* a wrong next: the end of the range is yielded as well
Arange_next_op_closed(s) ==
    IF ~RLess(s.end, Arange_x(s))
    THEN Outcome([s EXCEPT !.step = RAdd(s.step, FromUsize(1))], Some(s.step[1]),
                 Some(Arange_x(s)))
    ELSE Outcome(s, None, None)

\* Arange::next
Arange_next_op(s) ==
    IF RLess(Arange_x(s), s.end)
    THEN Outcome([s EXCEPT !.step = RAdd(s.step, FromUsize(1))], Some(s.step[1]),
                 Some(Arange_x(s)))
    ELSE Outcome(s, None, None)

\* Arange::size_hint
Arange_size_hint(s) ==
    LET length     == RSub(s.end, Arange_x(s))
        steps_left == RCeilToUsize(RDiv(length, s.step_size))
    IN  IF steps_left.some THEN <<steps_left.val, Some(steps_left.val)>>
        ELSE <<0, None>>

ArangeStarts == {FromUsize(0), FromUsize(1)}
ArangeEnds == {FromUsize(0), Rat(1, 2), Rat(11, 20), FromUsize(1), FromUsize(2)}
ArangeSteps == {Rat(1, 10), Rat(1, 2), FromUsize(1), FromUsize(0), Rat(-1, 2)}

ArangeConfigs ==
    {[kind |-> "Arange", start |-> a, end |-> b, step |-> st] :
        a \in ArangeStarts, b \in ArangeEnds, st \in ArangeSteps}

InitArange ==
    /\ cfg \in ArangeConfigs
    /\ seq = Arange_new(cfg.start, cfg.end, cfg.step).seq
    /\ panicked = Arange_new(cfg.start, cfg.end, cfg.step).panic
    /\ ret = NoCall
    /\ front = <<>>
    /\ back = <<>>
    /\ rev = NoSeq
    /\ actual_rev = <<>>

Arange_next ==
    /\ ~panicked
    /\ seq.type = "Arange"
    /\ Len(front) <= MaxArangeYield
    /\ Call("next", 0, Arange_next_op(seq), TRUE)

NextArange == Arange_next

\* an Arange iterated with next
SpecArange == InitArange /\ [][NextArange]_vars

----------------------------------------------------------------------------
(* Properties of Arange *)

\* ceil((end - start) / step) for step > 0 and start <= end
ArangeTotal ==
    LET span == RSub(cfg.end, cfg.start)
        n    == span[1] * cfg.step[2]
        d    == span[2] * cfg.step[1]
    IN  (n + d - 1) \div d

ArangeInDomain ==
    /\ cfg.kind = "Arange"
    /\ RLess(FromUsize(0), cfg.step)
    /\ ~RLess(cfg.end, cfg.start)

\* Arange::new(0.0..0.55, 0.1), Arange::new(0.0..0.5, 0.1), Arange::new(0.0..2.0, 0.5)
ArangeExamples ==
    {<<[kind |-> "Arange", start |-> FromUsize(0), end |-> Rat(11, 20), step |-> Rat(1, 10)], 6>>,
     <<[kind |-> "Arange", start |-> FromUsize(0), end |-> Rat(1, 2), step |-> Rat(1, 10)], 5>>,
     <<[kind |-> "Arange", start |-> FromUsize(0), end |-> FromUsize(2), step |-> Rat(1, 2)], 4>>}

ArangeBadStep ==
    /\ cfg.kind = "Arange"
    /\ \/ cfg.step = FromUsize(0)
       \/ RLess(cfg.step, FromUsize(0)) /\ RLess(cfg.start, cfg.end)
       \/ RLess(FromUsize(0), cfg.step) /\ RLess(cfg.end, cfg.start)

\* C17: an Arange whose step is zero or has the wrong sign fails at
\* construction: no sequence is returned, and none ever yields a value.
C17_BadStepFailsFast ==
    ArangeBadStep => panicked /\ seq = NoSeq /\ front = <<>>

----------------------------------------------------------------------------
(* Properties of arange_grid *)

\* arange_grid([0.0, 0.0]..[1.0, 2.0], [0.5, 1.0])
ArangeGridArrayExample ==
    [kind |-> "arange_grid", scalar |-> FALSE,
     start |-> Zeros(2), end |-> Ends(2), step |-> <<Half, One>>]

\* test_arange_grid_exclusive: the expected items of ArangeGridArrayExample
ArangeGridExpected ==
    << <<Zero, Zero>>, <<Half, Zero>>, <<Zero, One>>, <<Half, One>> >>

\* the step size of axis i
ArangeGridStep(c, i) == IF c.scalar THEN c.step_each ELSE c.step[i]

\* C18: arange_grid yields prod_i ceil((b_i - a_i) / step_i) items; the item
\* at flat index k has on axis i the value a_i + k_i * step_i, k_i being the
\* mixed-radix digits of k with axis 0 the least significant; every
\* combination is yielded once; arange_grid([0,0]..[1,2], [0.5,1.0]) yields
\* [0,0], [0.5,0], [0,1], [0.5,1] and arange_grid([0,0]..[1,2], 0.5) has
\* length 8.
C18_ArangeGridAxis0Fastest ==
    (cfg.kind = "arange_grid" /\ seq.type = "Space") =>
        /\ ret.op = "new" => Space_len(seq) = AxisProduct(ArangeCounts(cfg))
        /\ cfg = ArangeGridExample /\ ret.op = "new" => Space_len(seq) = 8
        /\ \A e \in YieldedSet :
              /\ \A i \in 1..Len(cfg.start) :
                    e.item[i] =
                        RAdd(cfg.start[i],
                             RMul(FromUsize(ColumnMajorDigit(e.idx, ArangeCounts(cfg), i)),
                                  ArangeGridStep(cfg, i)))
              /\ cfg = ArangeGridArrayExample => e.item = ArangeGridExpected[e.idx + 1]
        /\ (Len(front) + Len(back) = AxisProduct(ArangeCounts(cfg)))
              => Cardinality({e.item : e \in YieldedSet}) = AxisProduct(ArangeCounts(cfg))

\* arange_grid([0,0]..[1,2], [0.5,1.0]) has been collected
C18_Witness ==
    /\ cfg = ArangeGridArrayExample
    /\ Items(front) = ArangeGridExpected

----------------------------------------------------------------------------
(* sum2 / product2 over Option and Result elements:                        *)
(* src/src/accum/result.rs, src/src/accum/num.rs, src/src/adapter.rs       *)

\* longest sequence of elements drawn for sum2 / product2
MaxAccumLen == 3

\* the unit error () of Option::ok_or(()), and the unit value of Ok(())
UnitError == "()"
Unit == <<>>

\* Result<T, E>: val is the payload of Ok, err the error of Err
Ok(v) == [ok |-> TRUE, val |-> v, err |-> ""]
Err(e) == [ok |-> FALSE, val |-> 0, err |-> e]

\* Option::ok_or(()) and Result::ok
ok_or_unit(x) == IF x.some THEN Ok(x.val) ELSE Err(UnitError)
Result_ok(r) == IF r.ok THEN Some(r.val) ELSE None

\* the element the underlying iterator hands to ResultShunt at position pos:
\* for Option elements the iterator is iter.map(|x| x.ok_or(()))
Accum_element(c, pos) ==
    IF c.wrapper = "Option" THEN ok_or_unit(c.items[pos]) ELSE c.items[pos]

\* the closure of T::sum2 / T::product2: |a, b| a + b, |a, b| a * b
Accum_fold(c, a, b) == IF c.kind = "sum2" THEN a + b ELSE a * b

\* process_results: error = Ok(()), the shunt over iter, and the fold of
\* T::sum2 / T::product2 about to start from $zero / $one
process_results(c) ==
    [type |-> "ResultShunt", pos |-> 1, error |-> Ok(Unit),
     accum |-> IF c.kind = "sum2" THEN 0 ELSE 1, done |-> FALSE]

\* a wrong fold: an Err element is dropped and the loop goes on
ResultShunt_fold_op_skip_err(c, s) ==
    IF s.pos > Len(c.items) THEN [s EXCEPT !.done = TRUE]
    ELSE LET x == Accum_element(c, s.pos)
         IN  IF x.ok THEN [s EXCEPT !.pos = s.pos + 1, !.accum = Accum_fold(c, s.accum, x.val)]
             ELSE [s EXCEPT !.pos = s.pos + 1]

\* a wrong fold: the first error is stored but the loop does not break
ResultShunt_fold_op_no_break(c, s) ==
    IF s.pos > Len(c.items) THEN [s EXCEPT !.done = TRUE]
    ELSE LET x == Accum_element(c, s.pos)
         IN  IF x.ok THEN [s EXCEPT !.pos = s.pos + 1, !.accum = Accum_fold(c, s.accum, x.val)]
             ELSE [s EXCEPT !.pos = s.pos + 1,
                            !.error = IF s.error.ok THEN Err(x.err) ELSE s.error]

\* ResultShunt::fold, one turn of `for x in self.iter`: the iterator is asked
\* for its next element; at its end the loop is left, an Ok is folded into
\* accum, an Err is stored and the loop is left
ResultShunt_fold_op(c, s) ==
    IF s.pos > Len(c.items) THEN [s EXCEPT !.done = TRUE]
    ELSE LET x == Accum_element(c, s.pos)
         IN  IF x.ok THEN [s EXCEPT !.pos = s.pos + 1, !.accum = Accum_fold(c, s.accum, x.val)]
             ELSE [s EXCEPT !.pos = s.pos + 1, !.error = Err(x.err), !.done = TRUE]

\* error.map(|()| value), and .ok() for Option elements
process_results_value(c, s) ==
    LET result == IF s.error.ok THEN Ok(s.accum) ELSE s.error
    IN  IF c.wrapper = "Option" THEN Result_ok(result) ELSE result

AccumPayloads == {1, 2}
AccumErrors == {"e1", "e2"}

AccumElements(wrapper) ==
    IF wrapper = "Option" THEN {Some(v) : v \in AccumPayloads} \cup {None}
    ELSE {Ok(v) : v \in AccumPayloads} \cup {Err(e) : e \in AccumErrors}

AccumConfigs ==
    UNION {
        {[kind |-> k, wrapper |-> w, items |-> it] :
            k \in {"sum2", "product2"},
            it \in UNION {[1..n -> AccumElements(w)] : n \in 0..MaxAccumLen}}
        : w \in {"Option", "Result"}}

InitAccum ==
    /\ cfg \in AccumConfigs
    /\ seq = process_results(cfg)
    /\ panicked = FALSE
    /\ ret = NoCall
    /\ front = <<>>
    /\ back = <<>>
    /\ rev = NoSeq
    /\ actual_rev = <<>>

\* one turn of the loop of ResultShunt::fold; front notes the elements pulled
\* from the underlying iterator
ResultShunt_fold ==
    /\ seq.type = "ResultShunt"
    /\ ~seq.done
    /\ seq' = ResultShunt_fold_op(cfg, seq)
    /\ front' = IF seq'.pos > seq.pos
                THEN Append(front, Yielded(seq.pos - 1, cfg.items[seq.pos]))
                ELSE front
    /\ UNCHANGED <<cfg, panicked, ret, back, rev, actual_rev>>

\* the fold has ended: process_results returns, and with it sum2 / product2
process_results_return ==
    /\ seq.type = "ResultShunt"
    /\ seq.done
    /\ seq' = Consumed
    /\ ret' = [op |-> cfg.kind, n |-> 0, idx |-> None,
               val |-> process_results_value(cfg, seq), before |-> seq]
    /\ UNCHANGED <<cfg, panicked, front, back, rev, actual_rev>>

NextAccum ==
    \/ ResultShunt_fold
    \/ process_results_return

\* sum2 / product2 over a sequence of Option or Result elements
SpecAccum == InitAccum /\ [][NextAccum]_vars

----------------------------------------------------------------------------
(* Properties of sum2 / product2 *)

IsAccum == cfg.kind \in {"sum2", "product2"}

\* the element at position i is None / Err
Fails(c, i) == IF c.wrapper = "Option" THEN ~c.items[i].some ELSE ~c.items[i].ok

\* the position of the first None / Err element, 0 when there is none
FirstFailure(c) ==
    IF \E i \in 1..Len(c.items) : Fails(c, i)
    THEN CHOOSE i \in 1..Len(c.items) :
            Fails(c, i) /\ \A j \in 1..(i - 1) : ~Fails(c, j)
    ELSE 0

\* the sum / product of the payloads of items 1..n
RECURSIVE Aggregate(_, _)
Aggregate(c, n) ==
    IF n = 0 THEN (IF c.kind = "sum2" THEN 0 ELSE 1)
    ELSE IF c.kind = "sum2" THEN Aggregate(c, n - 1) + c.items[n].val
    ELSE Aggregate(c, n - 1) * c.items[n].val

\* C19: sum2 / product2 returns Some / Ok of the aggregate of the payloads if
\* and only if no element is None / Err; otherwise None, respectively Err(e)
\* with e the error of the first Err element.
C19_AggregateOrFirstFailure ==
    IsAccum /\ ret.op \in {"sum2", "product2"} =>
        IF FirstFailure(cfg) = 0
        THEN ret.val = (IF cfg.wrapper = "Option" THEN Some(Aggregate(cfg, Len(cfg.items)))
                        ELSE Ok(Aggregate(cfg, Len(cfg.items))))
        ELSE ret.val = (IF cfg.wrapper = "Option" THEN None
                        ELSE Err(cfg.items[FirstFailure(cfg)].err))

\* sum2 / product2 over an Ok, then Err(e2), then Err(e1) has returned Err(e2),
\* the first of the two errors
C19_Witness ==
    /\ IsAccum /\ cfg.wrapper = "Result"
    /\ ret.op = cfg.kind
    /\ Len(cfg.items) = 3
    /\ cfg.items[1].ok /\ cfg.items[2] = Err("e2") /\ cfg.items[3] = Err("e1")
    /\ ret.val = Err("e2")

\* the elements pulled so far are the first ones of the sequence, each once
PulledIsPrefix ==
    front = [i \in 1..Len(front) |-> Yielded(i - 1, cfg.items[i])]

\* C20: sum2 / product2 is a single pass with early termination: the elements
\* are pulled in order, each once; none is pulled after the first None / Err;
\* when it returns, every element up to the first None / Err (all of them when
\* there is none) has been pulled.
C20_SinglePassEarlyStop ==
    IsAccum =>
        /\ Len(front) <= Len(cfg.items)
        /\ PulledIsPrefix
        /\ FirstFailure(cfg) # 0 => Len(front) <= FirstFailure(cfg)
        /\ ret.op \in {"sum2", "product2"} =>
               Len(front) = (IF FirstFailure(cfg) # 0 THEN FirstFailure(cfg)
                             ELSE Len(cfg.items))

\* sum2 has returned after a failure in the middle: one element was left unpulled
C20_Witness ==
    /\ IsAccum
    /\ ret.op = cfg.kind
    /\ Len(cfg.items) = 3
    /\ FirstFailure(cfg) = 2
    /\ Len(front) = 2

----------------------------------------------------------------------------
(* Space::bounds: src/src/space.rs, src/src/gridstep.rs                    *)

\* core::ops::Bound
Included(v) == [bound |-> "Included", val |-> v]
Excluded(v) == [bound |-> "Excluded", val |-> v]

\* RangeBounds::start_bound of Range<usize> and RangeInclusive<usize>
Range_start_bound(r) == Included(r.start)

\* RangeBounds::end_bound: an exhausted RangeInclusive reports Excluded(end)
Range_end_bound(r) ==
    IF r.inclusive /\ ~r.exhausted THEN Included(r.end) ELSE Excluded(r.end)

RECURSIVE GridStep_interpolate_exclusive_end_loop(_, _, _, _)
GridStep_interpolate_exclusive_end_loop(axes, j, x, out) ==
    IF j > Len(axes) THEN [x |-> x, res |-> out]
    ELSE GridStep_interpolate_exclusive_end_loop(
             axes, j + 1, x \div axes[j].steps,
             Append(out, forward(axes[j].start, axes[j].steps)))

\* a wrong interpolate_exclusive_end: the default of the Interpolate trait,
\* self.interpolate(x)
GridStep_interpolate_exclusive_end_default(axes, x) ==
    LET out == GridStep_interpolate(axes, x)
    IN  [panic |-> \E i \in 1..Len(out) : ~out[i].some,
         val   |-> [i \in 1..Len(out) |-> out[i].val]]

\* GridStepInterpolation::interpolate_exclusive_end: per axis x = x / steps
\* and T::forward(start, steps).unwrap(), then assert_eq!(x, 1)
GridStep_interpolate_exclusive_end(axes, x) ==
    LET r == GridStep_interpolate_exclusive_end_loop(axes, 1, x, <<>>)
    IN  [panic |-> (\E i \in 1..Len(r.res) : ~r.res[i].some) \/ r.x # 1,
         val   |-> [i \in 1..Len(r.res) |-> r.res[i].val]]

\* GridSpaceInterpolation::interpolate_exclusive_end of arange_grid: per axis
\* the linear strategy one past its last index
GridSpace_interpolate_exclusive_end(axes, x) ==
    [panic |-> FALSE,
     val   |-> [i \in 1..Len(axes) |-> LerpEval(axes[i], axes[i].length)]]

\* Interpolate::interpolate_exclusive_end
Interpolate_exclusive_end(I, x) ==
    IF I.kind = "GridStep" THEN GridStep_interpolate_exclusive_end(I.axes, x)
    ELSE GridSpace_interpolate_exclusive_end(I.axes, x)

\* Space::start_bound
Space_start_bound(s) ==
    LET b == Range_start_bound(s.range)
        v == Interpolate(s.interpolate, b.val)
    IN  [panic |-> v.panic, bound |-> [b EXCEPT !.val = v.val]]

\* Space::end_bound
Space_end_bound(s) ==
    LET b == Range_end_bound(s.range)
        v == IF b.bound = "Included" THEN Interpolate(s.interpolate, b.val)
             ELSE Interpolate_exclusive_end(s.interpolate, b.val)
    IN  [panic |-> v.panic, bound |-> [b EXCEPT !.val = v.val]]

\* Space::bounds
Space_bounds(s) ==
    [panic |-> Space_start_bound(s).panic \/ Space_end_bound(s).panic,
     start |-> Space_start_bound(s).bound,
     end   |-> Space_end_bound(s).bound]

----------------------------------------------------------------------------
(* Properties of bounds and of empty grid_step axes *)

\* the bounds the sequence was declared with
DeclaredBounds(c) ==
    [panic |-> FALSE,
     start |-> Included(c.start),
     end   |-> IF c.kind = "grid_step" /\ c.inclusive THEN Included(c.end)
               ELSE Excluded(c.end)]

C22_BoundsStayDeclared ==
    (cfg.kind = "grid_step" /\ seq.type = "Space" /\ ~panicked) =>
        Space_bounds(seq) = DeclaredBounds(cfg)

\* C29: grid_step over an exclusive range with an empty axis (start_i = end_i,
\* no axis reversed) constructs, is empty (len() = 0), and next / next_back
\* return None without a panic.
C29_EmptyAxisIsEmptyGrid ==
    (/\ cfg.kind = "grid_step"
     /\ ~cfg.inclusive
     /\ \A i \in 1..Len(cfg.start) : cfg.start[i] <= cfg.end[i]
     /\ \E i \in 1..Len(cfg.start) : cfg.start[i] = cfg.end[i])
    => (/\ ~panicked
        /\ seq.type = "Space"
        /\ Space_len(seq) = 0
        /\ ret.op \in {"next", "next_back"} => ~ret.val.some)

----------------------------------------------------------------------------
(* log_space iterated: src/src/logspace.rs, src/src/space.rs *)

\* logspace.rs tests: log_space(1.0..=1000.0, 4) and log_space(1.0..1000.0, 3)
LogInclusiveExample ==
    [kind |-> "log_space", elem |-> "float", start |-> FromUsize(1), end |-> FromUsize(1000),
     steps |-> 4, inclusive |-> TRUE, overflow_checks |-> FALSE]
LogExclusiveExample ==
    [kind |-> "log_space", elem |-> "float", start |-> FromUsize(1), end |-> FromUsize(1000),
     steps |-> 3, inclusive |-> FALSE, overflow_checks |-> FALSE]

\* spaces that descend from 8 to 1
LogSpaceDescending ==
    {[kind |-> "log_space", elem |-> "float", start |-> FromUsize(8), end |-> FromUsize(1),
      steps |-> n, inclusive |-> inc, overflow_checks |-> FALSE] :
        n \in 0..MaxLinSteps, inc \in BOOLEAN}

InitLog ==
    /\ cfg \in LogSpaceConfigs \cup LogSpaceDescending
               \cup {LogInclusiveExample, LogExclusiveExample}
    /\ seq = Construct1D(cfg).seq
    /\ panicked = Construct1D(cfg).panic
    /\ ret = NoCall
    /\ front = <<>>
    /\ back = <<>>
    /\ rev = NoSeq
    /\ actual_rev = <<>>

NextLog ==
    \/ Space_next
    \/ Space_next_back

\* a log_space consumed from both ends, in any order
SpecLog == InitLog /\ [][NextLog]_vars

----------------------------------------------------------------------------
(* Claims about log_space *)

\* a log_space over positive bounds that the constructor accepts
LogInDomain(c) == c.kind = "log_space" /\ (c.inclusive => c.steps >= 1)

LogDivisor(c) == IF c.inclusive THEN c.steps - 1 ELSE c.steps

\* v^d as a rational, for a value v whose exponent times d is whole
RealPowD(v, d) == RMul(RPow(v.coef, d), RPow(v.base, RMul(v.exp, FromUsize(d))[1]))

\* v is start * ratio^i, where ratio^divisor = end / start
LogLaw(c, e) ==
    /\ RMul(e.item.exp, FromUsize(LogDivisor(c)))[2] = 1
    /\ RDiv(RealPowD(e.item, LogDivisor(c)), RPow(c.start, LogDivisor(c)))
           = RPow(RDiv(c.end, c.start), e.idx)
    /\ e.idx = 0 => e.item = RealOf(c.start)

\* the quotient of consecutive elements, raised to the divisor, is end / start
LogConstantRatio(c, e1, e2) ==
    RDiv(RealPowD(e2.item, LogDivisor(c)), RealPowD(e1.item, LogDivisor(c)))
        = RDiv(c.end, c.start)

\* C23: a log_space over positive bounds yields exactly `steps` values
\* start * ratio^i with ratio = (end / start)^(1 / divisor), the divisor being
\* steps for a half-open range and steps - 1 for a closed one; consecutive
\* elements have a constant ratio; log_space(1.0..=1000.0, 4) is
\* [1, 10, 100, 1000] and log_space(1.0..1000.0, 3) is [1, 10, 100].
C23_LogSpaceLaw ==
    (LogInDomain(cfg) /\ seq.type = "Space") =>
        /\ ~panicked
        /\ Len(front) + Len(back) + Space_len(seq) = cfg.steps
        /\ \A e \in YieldedSet : e.idx \in 0..(cfg.steps - 1) /\ LogLaw(cfg, e)
        /\ \A e1, e2 \in YieldedSet :
               e2.idx = e1.idx + 1 => LogConstantRatio(cfg, e1, e2)
        /\ \A i \in 1..Len(front) : front[i].idx = i - 1
        /\ \A i \in 1..Len(back) : back[i].idx = cfg.steps - i
        /\ cfg \in {LogInclusiveExample, LogExclusiveExample} =>
               \A e \in YieldedSet : e.item = RealOf(FromUsize(Pow(10, e.idx)))

\* the closed example read to its end from the front
C23_Witness ==
    /\ cfg = LogInclusiveExample
    /\ Len(front) = 4
    /\ front[4].item = RealOf(FromUsize(1000))
    /\ Space_len(seq) = 0

\* a space whose ratio is not rational, read to its end from both sides
C23_IrrationalRatioRead ==
    /\ LogInDomain(cfg)
    /\ cfg.steps >= 2
    /\ Len(front) >= 1
    /\ Len(back) >= 1
    /\ Space_len(seq) = 0
    /\ \E e \in YieldedSet : e.item.exp # FromUsize(0)

----------------------------------------------------------------------------
(* ResultShunt::next: src/src/accum/result.rs                              *)
(*                                                                         *)
(* next is self.find(|_| true).  ResultShunt overrides fold only, so find  *)
(* and try_fold are the provided methods of Iterator: find calls           *)
(* self.try_fold((), check(predicate)) and try_fold runs                   *)
(* `while let Some(x) = self.next() { accum = f(accum, x)?; }`.  The calls *)
(* are followed on a stack of frames, one frame per function entered.      *)
(* sum2 / product2 over Option<Option<T>> reach next through the fold of   *)
(* the inner ResultShunt, whose iterator is a Map over the outer one.      *)

\* frames the stack of the thread has room for
MaxStackDepth == 8

NotReturned == [set |-> FALSE, val |-> None]
Returned(v) == [set |-> TRUE, val |-> v]

\* process_results has built the shunt and its user is about to pull from it:
\* a direct caller of next, or the fold of the inner shunt of a nested wrapper
ShuntCall(c) ==
    [type |-> "ShuntCall", pos |-> 1, error |-> Ok(Unit),
     stack |-> <<IF c.kind = "next" THEN "caller" ELSE "fold">>,
     returned |-> NotReturned]

Top(s) == s.stack[Len(s.stack)]

\* a function is entered: one more frame, or the stack is exhausted
Enter(f) ==
    IF Len(seq.stack) >= MaxStackDepth
    THEN seq' = seq /\ panicked' = TRUE
    ELSE seq' = [seq EXCEPT !.stack = Append(@, f)] /\ panicked' = FALSE

\* a function returns to its caller with the value in seq.returned
Leave == seq' = [seq EXCEPT !.stack = SubSeq(@, 1, Len(@) - 1)] /\ panicked' = FALSE

ShuntConfigs ==
    UNION {
        {[kind |-> k, wrapper |-> w, items |-> it, recursion_as_loop |-> l] :
            k \in {"next", "sum2", "product2"},
            it \in UNION {[1..n -> AccumElements(w)] : n \in 0..MaxAccumLen},
            l \in BOOLEAN}
        : w \in {"Option", "Result"}}

InitShunt ==
    /\ cfg \in ShuntConfigs
    /\ seq = ShuntCall(cfg)
    /\ panicked = FALSE
    /\ ret = NoCall
    /\ front = <<>>
    /\ back = <<>>
    /\ rev = NoSeq
    /\ actual_rev = <<>>

\* the user of the shunt: it calls next, and takes the answer once next returns
ShuntUser_next ==
    /\ seq.type = "ShuntCall"
    /\ ~panicked
    /\ Top(seq) \in {"caller", "fold"}
    /\ IF seq.returned.set
       THEN /\ seq' = [seq EXCEPT !.returned = NotReturned]
            /\ panicked' = FALSE
            /\ ret' = [op |-> "next", n |-> 0, idx |-> None,
                       val |-> seq.returned.val, before |-> seq]
       ELSE /\ ret.op = "new"
            /\ Enter("next")
            /\ ret' = ret
    /\ UNCHANGED <<cfg, front, back, rev, actual_rev>>

\* ResultShunt::next: self.find(|_| true)
ResultShunt_next ==
    /\ seq.type = "ShuntCall"
    /\ ~panicked
    /\ Top(seq) = "next"
    /\ IF seq.returned.set THEN Leave ELSE Enter("find")
    /\ UNCHANGED <<cfg, ret, front, back, rev, actual_rev>>

\* Iterator::find: self.try_fold((), check(predicate)).break_value()
Iterator_find ==
    /\ seq.type = "ShuntCall"
    /\ ~panicked
    /\ Top(seq) = "find"
    /\ IF seq.returned.set THEN Leave ELSE Enter("try_fold")
    /\ UNCHANGED <<cfg, ret, front, back, rev, actual_rev>>

\* Iterator::try_fold: while let Some(x) = self.next() { accum = f(accum, x)? }
\* with f breaking on the first x.  A build that has turned the recursion
\* next -> find -> try_fold -> next into a jump re-enters next in place.
Iterator_try_fold ==
    /\ seq.type = "ShuntCall"
    /\ ~panicked
    /\ Top(seq) = "try_fold"
    /\ IF seq.returned.set THEN Leave
       ELSE IF cfg.recursion_as_loop
       THEN seq' = [seq EXCEPT !.stack = SubSeq(@, 1, Len(@) - 2)] /\ panicked' = FALSE
       ELSE Enter("next")
    /\ UNCHANGED <<cfg, ret, front, back, rev, actual_rev>>

NextShunt ==
    \/ ShuntUser_next
    \/ ResultShunt_next
    \/ Iterator_find
    \/ Iterator_try_fold

\* one call of next on a ResultShunt
SpecShunt == InitShunt /\ [][NextShunt]_vars

\* the thread that made the call keeps running while it can
SpecShuntFair == SpecShunt /\ WF_vars(NextShunt)

----------------------------------------------------------------------------
(* Claims about ResultShunt::next *)

\* what next has to answer on a fresh shunt
ShuntExpected(c) ==
    IF Len(c.items) = 0 THEN None
    ELSE IF Accum_element(c, 1).ok THEN Some(Accum_element(c, 1).val) ELSE None

\* C24: every call of ResultShunt::next terminates, with Some(v) for the next
\* Ok(v) of the underlying iterator and None at its first Err or at its end;
\* so sum2 / product2 over nested wrappers, which pull from a ResultShunt
\* with next, terminate.
C24_NextTerminates ==
    (seq.type = "ShuntCall") ~> (ret.op = "next" /\ ret.val.some = ShuntExpected(cfg).some)

----------------------------------------------------------------------------
(* The Step implementations: src/src/step.rs                               *)
(*                                                                         *)
(* An integer type is its class in step_integer_impls!, its width in bits  *)
(* and the width of usize on the target.  char is taken on a target whose  *)
(* usize has 16 bits, where its u32 scalar value is wider than usize.      *)

\* width of the integer types that are strictly narrower than usize
NarrowBits == 4
\* width of usize on the target char is taken on
CharUsizeBits == 16

UMax(w) == Pow(2, w) - 1
IMin(w) == -Pow(2, w - 1)
IMax(w) == Pow(2, w - 1) - 1

\* x as iN: the value of the low w bits, read as a signed integer
AsSigned(w, x) == ((x - IMin(w)) % Pow(2, w)) + IMin(w)

\* usize::try_from(x).ok() for x >= 0
usize_try_from(ub, x) == IF x <= UMax(ub) THEN Some(x) ELSE None

\* uN::checked_add and iN::checked_add / checked_sub
u_checked_add(w, a, b) == IF a + b <= UMax(w) THEN Some(a + b) ELSE None
i_checked_add(w, a, b) == IF a + b <= IMax(w) THEN Some(a + b) ELSE None
i_checked_sub(w, a, b) == IF a - b <= IMax(w) /\ a - b >= IMin(w) THEN Some(a - b) ELSE None

\* impl Step for $u_narrower
u_narrower_steps_between(start, end) == IF start <= end THEN Some(end - start) ELSE None

u_narrower_forward(w, start, n) == IF n <= UMax(w) THEN u_checked_add(w, start, n) ELSE None

\* a wrong steps_between: the difference is not taken through isize and usize
i_narrower_steps_between_signed(w, ub, start, end) ==
    IF start <= end THEN Some(AsSigned(w, end - start)) ELSE None

\* impl Step for $i_narrower:
\* (*end as isize).wrapping_sub(*start as isize) as usize
i_narrower_steps_between(w, ub, start, end) ==
    IF start <= end THEN Some(AsSigned(ub, end - start) % Pow(2, ub)) ELSE None

\* a wrong forward: the wrapped sum is returned unchecked
i_narrower_forward_wrapping(w, start, n) ==
    IF n <= UMax(w) THEN Some(AsSigned(w, start + AsSigned(w, n))) ELSE None

i_narrower_forward(w, start, n) ==
    IF n <= UMax(w)
    THEN LET wrapped == AsSigned(w, start + AsSigned(w, n))
         IN  IF wrapped >= start THEN Some(wrapped) ELSE None
    ELSE None

\* impl Step for $u_wider
u_wider_steps_between(ub, start, end) ==
    IF start <= end THEN usize_try_from(ub, end - start) ELSE None

u_wider_forward(w, start, n) == u_checked_add(w, start, n)

\* impl Step for $i_wider
i_wider_steps_between(w, ub, start, end) ==
    IF start <= end
    THEN IF i_checked_sub(w, end, start).some
         THEN usize_try_from(ub, i_checked_sub(w, end, start).val)
         ELSE None
    ELSE None

i_wider_forward(w, start, n) == i_checked_add(w, start, n)

\* the code points of char: below 0xD800, and 0xE000 up to char::MAX
SurrogateFirst == 55296
SurrogateEnd == 57344
SurrogateCount == 2048
CharMax == 1114111
IsChar(x) == (0 <= x /\ x < SurrogateFirst) \/ (SurrogateEnd <= x /\ x <= CharMax)

\* impl Step for char
char_steps_between(ub, start, end) ==
    IF start <= end
    THEN IF start < SurrogateFirst /\ SurrogateEnd <= end
         THEN usize_try_from(ub, end - start - SurrogateCount)
         ELSE usize_try_from(ub, end - start)
    ELSE None

\* Step::forward on the u32 of a char: start.checked_add(n as u32), which
\* cannot overflow u32 from a code point and a 16-bit count
u32_forward(start, n) == Some(start + n)

char_forward(start, count) ==
    LET res  == u32_forward(start, count).val
        res2 == IF start < SurrogateFirst /\ SurrogateFirst <= res
                THEN u32_forward(res, SurrogateCount).val ELSE res
    IN  IF res2 <= CharMax THEN Some(res2) ELSE None

\* the Step implementations the model calls
StepTypes ==
    {[class |-> c, bits |-> NarrowBits, usize_bits |-> UsizeBits] :
        c \in {"u_narrower", "i_narrower"}}
    \cup {[class |-> c, bits |-> I8Bits, usize_bits |-> UsizeBits] :
        c \in {"u_narrower", "i_narrower"}}
    \cup {[class |-> c, bits |-> UsizeBits + 2, usize_bits |-> UsizeBits] :
        c \in {"u_wider", "i_wider"}}
    \cup {[class |-> "char", bits |-> 32, usize_bits |-> CharUsizeBits]}

IsSigned(ty) == ty.class \in {"i_narrower", "i_wider"}
StepMin(ty) == IF IsSigned(ty) THEN IMin(ty.bits) ELSE 0
StepMax(ty) ==
    IF ty.class = "char" THEN CharMax
    ELSE IF IsSigned(ty) THEN IMax(ty.bits) ELSE UMax(ty.bits)

\* the values drawn of a type: all of a narrow type, else those next to its
\* ends, to zero and to the surrogates, and the ones of the documented calls
StepValues(ty) ==
    IF ty.class = "char"
    THEN {0, 1, 65, SurrogateFirst - 2, SurrogateFirst - 1, SurrogateEnd, SurrogateEnd + 1,
          65535, 65536, CharMax - 1, CharMax}
    ELSE IF ty.bits <= NarrowBits THEN StepMin(ty)..StepMax(ty)
    ELSE {x \in (StepMin(ty)..(StepMin(ty) + 2)) \cup {StepMin(ty) + 8} \cup (-2..2)
                 \cup {80, 100} \cup ((StepMax(ty) - 2)..StepMax(ty)) :
            StepMin(ty) <= x /\ x <= StepMax(ty)}

\* the counts drawn: every usize, or for char those next to zero, to the
\* number of surrogates and to usize::MAX
StepCounts(ty) ==
    IF ty.class = "char"
    THEN {0, 1, 2, 64, SurrogateCount - 1, SurrogateCount, SurrogateCount + 1,
          UMax(CharUsizeBits) - 1, UMax(CharUsizeBits)}
    ELSE 0..UMax(ty.usize_bits)

Step_steps_between_op(ty, start, end) ==
    CASE ty.class = "u_narrower" -> u_narrower_steps_between(start, end)
      [] ty.class = "i_narrower" -> i_narrower_steps_between(ty.bits, ty.usize_bits, start, end)
      [] ty.class = "u_wider"    -> u_wider_steps_between(ty.usize_bits, start, end)
      [] ty.class = "i_wider"    -> i_wider_steps_between(ty.bits, ty.usize_bits, start, end)
      [] ty.class = "char"       -> char_steps_between(ty.usize_bits, start, end)

Step_forward_op(ty, start, n) ==
    CASE ty.class = "u_narrower" -> u_narrower_forward(ty.bits, start, n)
      [] ty.class = "i_narrower" -> i_narrower_forward(ty.bits, start, n)
      [] ty.class = "u_wider"    -> u_wider_forward(ty.bits, start, n)
      [] ty.class = "i_wider"    -> i_wider_forward(ty.bits, start, n)
      [] ty.class = "char"       -> char_forward(start, n)

\* the calls drawn on one type: forward(a, n) and steps_between(&a, &b)
StepConfigs(ty) ==
    {[kind |-> "step", call |-> "forward", ty |-> ty, a |-> a, arg |-> n] :
        a \in StepValues(ty), n \in StepCounts(ty)}
    \cup {[kind |-> "step", call |-> "steps_between", ty |-> ty, a |-> a, arg |-> b] :
        a \in StepValues(ty), b \in StepValues(ty)}

StepCall == [type |-> "StepCall"]

InitStep ==
    /\ \E ty \in StepTypes : cfg \in StepConfigs(ty)
    /\ seq = StepCall
    /\ panicked = FALSE
    /\ ret = NoCall
    /\ front = <<>>
    /\ back = <<>>
    /\ rev = NoSeq
    /\ actual_rev = <<>>

\* Step::forward(a, n)
Step_forward ==
    /\ seq.type = "StepCall"
    /\ cfg.call = "forward"
    /\ ret.op = "new"
    /\ ret' = [op |-> "forward", n |-> cfg.arg, idx |-> None,
               val |-> Step_forward_op(cfg.ty, cfg.a, cfg.arg), before |-> NoSeq]
    /\ UNCHANGED <<cfg, seq, panicked, front, back, rev, actual_rev>>

\* Step::steps_between(&a, &b)
Step_steps_between ==
    /\ seq.type = "StepCall"
    /\ cfg.call = "steps_between"
    /\ ret.op = "new"
    /\ ret' = [op |-> "steps_between", n |-> 0, idx |-> None,
               val |-> Step_steps_between_op(cfg.ty, cfg.a, cfg.arg), before |-> NoSeq]
    /\ UNCHANGED <<cfg, seq, panicked, front, back, rev, actual_rev>>

NextStep ==
    \/ Step_forward
    \/ Step_steps_between

\* one call of a Step function on drawn arguments
SpecStep == InitStep /\ [][NextStep]_vars

----------------------------------------------------------------------------
(* Claims about Step *)

IsSome(o, v) == o.some /\ o.val = v

I8 == [class |-> "i_narrower", bits |-> I8Bits, usize_bits |-> UsizeBits]

\* C25: for every Step implementation and all a, b, n:
\* steps_between(&a, &b) == Some(n) exactly when forward(a, n) == Some(b);
\* steps_between is Some only if a <= b, and Some(0) exactly when a == b.
C25_StepsBetweenInvertsForward ==
    /\ (ret.op = "forward" /\ ret.val.some) =>
           IsSome(Step_steps_between_op(cfg.ty, cfg.a, ret.val.val), cfg.arg)
    /\ (ret.op = "steps_between" /\ ret.val.some) =>
           /\ cfg.a <= cfg.arg
           /\ IsSome(Step_forward_op(cfg.ty, cfg.a, ret.val.val), cfg.arg)
           /\ ret.val.val \in StepCounts(cfg.ty) =>
                  \A n \in StepCounts(cfg.ty) :
                      IsSome(Step_forward_op(cfg.ty, cfg.a, n), cfg.arg) => n = ret.val.val
    /\ ret.op = "steps_between" => (IsSome(ret.val, 0) <=> cfg.a = cfg.arg)
    /\ (ret.op = "steps_between" /\ cfg.ty = I8) =>
           ret.val.some = steps_between(cfg.a, cfg.arg).some

\* the span of isize is crossed: steps_between(i8::MIN, i8::MAX) on a target
\* whose usize is as wide, and two chars on either side of the surrogates
C25_Witness ==
    /\ ret.op = "steps_between"
    /\ \/ cfg.ty.class = "i_narrower" /\ cfg.ty.bits = cfg.ty.usize_bits
          /\ cfg.a = StepMin(cfg.ty) /\ cfg.arg = StepMax(cfg.ty)
          /\ IsSome(ret.val, UMax(cfg.ty.bits))
       \/ cfg.ty.class = "char" /\ cfg.a = SurrogateFirst - 1 /\ cfg.arg = SurrogateEnd
          /\ IsSome(ret.val, 1)

\* the sum start + n is a value of the type
StepInRange(ty, x) == IF ty.class = "char" THEN IsChar(x) ELSE StepMin(ty) <= x /\ x <= StepMax(ty)

\* C26: Step::forward never returns a wrapped or invalid value: for the
\* integer types it is Some(start + n) exactly when start + n is a value of the
\* type and None otherwise (forward(-120_i8, 200) == Some(80),
\* forward(100_i8, 200) == None); for char the result is never a surrogate
\* nor above char::MAX.
C26_ForwardNeverWraps ==
    ret.op = "forward" =>
        /\ cfg.ty.class # "char" =>
               ret.val = IF StepInRange(cfg.ty, cfg.a + cfg.arg)
                         THEN Some(cfg.a + cfg.arg) ELSE None
        /\ cfg.ty.class = "char" =>
               /\ ret.val.some => (IsChar(ret.val.val) /\ ret.val.val >= cfg.a + cfg.arg)
               /\ ~ret.val.some => cfg.a + cfg.arg + SurrogateCount > CharMax
        /\ cfg.ty = I8 =>
               /\ ret.val.some = forward(cfg.a, cfg.arg).some
               /\ ret.val.some => ret.val.val = forward(cfg.a, cfg.arg).val
               /\ (cfg.a = -120 /\ cfg.arg = 200) => IsSome(ret.val, 80)
               /\ (cfg.a = 100 /\ cfg.arg = 200) => ~ret.val.some

\* forward(100_i8, 200) has been refused, its wrapped sum being 44
C26_Witness ==
    /\ ret.op = "forward"
    /\ cfg.ty = I8
    /\ cfg.a = 100
    /\ cfg.arg = 200
    /\ ~ret.val.some

----------------------------------------------------------------------------
(* Map: src/src/map.rs, over a Range<usize> *)

\* largest end of the range a Map is built over
MaxMapEnd == 5

\* Function::call for the functions the model maps with
Function_call(f, x) ==
    CASE f = "double" -> 2 * x
      [] f = "square_minus" -> x * x - 3

\* Map::new(lo..hi, f)
Map_new(lo, hi, f) ==
    [type |-> "Map", i |-> [inclusive |-> FALSE, start |-> lo, end |-> hi, exhausted |-> FALSE],
     f |-> f]

\* a wrong next: the element of the inner iterator is handed on as it is
Map_next_op_unmapped(s) ==
    LET r == Range_next(s.i)
    IN  Outcome([s EXCEPT !.i = r.range], r.val, r.val)

\* Map::next: match self.i.next() { Some(x) => Some(self.f.call(x)), None => None }
Map_next_op(s) ==
    LET r == Range_next(s.i)
    IN  Outcome([s EXCEPT !.i = r.range], r.val,
                IF r.val.some THEN Some(Function_call(s.f, r.val.val)) ELSE None)

\* Map::next_back: Some(self.f.call(self.i.next_back()?))
Map_next_back_op(s) ==
    LET r == Range_next_back(s.i)
    IN  Outcome([s EXCEPT !.i = r.range], r.val,
                IF r.val.some THEN Some(Function_call(s.f, r.val.val)) ELSE None)

\* Map::size_hint: self.i.size_hint(), of a Range<usize>
Map_size_hint(s) == <<Range_len(s.i), Some(Range_len(s.i))>>

\* Map::len: self.i.len()
Map_len(s) == Range_len(s.i)

\* map.rs tests: Map::new(0..5, |x| 2 * x)
MapExample == [kind |-> "map", lo |-> 0, hi |-> 5, f |-> "double"]

MapConfigs ==
    {[kind |-> "map", lo |-> lo, hi |-> hi, f |-> f] :
        lo \in 0..2, hi \in 0..MaxMapEnd, f \in {"double", "square_minus"}}

InitMap ==
    /\ cfg \in MapConfigs
    /\ seq = Map_new(cfg.lo, cfg.hi, cfg.f)
    /\ panicked = FALSE
    /\ ret = NoCall
    /\ front = <<>>
    /\ back = <<>>
    /\ rev = NoSeq
    /\ actual_rev = <<>>

Map_next ==
    /\ seq.type = "Map"
    /\ Call("next", 0, Map_next_op(seq), TRUE)

Map_next_back ==
    /\ seq.type = "Map"
    /\ Call("next_back", 0, Map_next_back_op(seq), FALSE)

NextMap ==
    \/ Map_next
    \/ Map_next_back

\* a Map consumed from both ends, in any order
SpecMap == InitMap /\ [][NextMap]_vars

----------------------------------------------------------------------------
(* Claims about Map *)

\* number of elements of lo..hi
MapInnerLen(c) == IF c.lo < c.hi THEN c.hi - c.lo ELSE 0

MapExampleItems == <<0, 2, 4, 6, 8>>

\* C27: Map::new(iter, f) behaves as the inner iterator with f applied to each
\* element, under any interleaving of next and next_back: the k-th next gives
\* f of the k-th element from the front, the k-th next_back f of the k-th from
\* the back, None once the two have met; len and size_hint are the inner
\* iterator's.  Map::new(0..5, |x| 2 * x) yields [0, 2, 4, 6, 8], reversed
\* [8, 6, 4, 2, 0], and has len 5.
C27_MapIsInnerMapped ==
    seq.type = "Map" =>
        /\ \A k \in 1..Len(front) : front[k].item = Function_call(cfg.f, cfg.lo + k - 1)
        /\ \A k \in 1..Len(back) : back[k].item = Function_call(cfg.f, cfg.hi - k)
        /\ Len(front) + Len(back) + Map_len(seq) = MapInnerLen(cfg)
        /\ Map_size_hint(seq) = <<Map_len(seq), Some(Map_len(seq))>>
        /\ Map_len(seq) = Range_len(seq.i)
        /\ ret.op \in {"next", "next_back"} =>
               /\ ret.val.some <=> Range_len(ret.before.i) > 0
               /\ ~ret.val.some => seq = ret.before
        /\ cfg = MapExample =>
               /\ ret.op = "new" => Map_len(seq) = 5
               /\ \A k \in 1..Len(front) : front[k].item = MapExampleItems[k]
               /\ \A k \in 1..Len(back) : back[k].item = MapExampleItems[6 - k]

\* the example read from both ends until the two meet, and asked once more
C27_Witness ==
    /\ cfg = MapExample
    /\ Len(front) = 3
    /\ Len(back) = 2
    /\ front[3].item = 4
    /\ back[2].item = 6
    /\ ret.op = "next_back"
    /\ ~ret.val.some

----------------------------------------------------------------------------
(* grid over a tuple of iterators: src/src/grid/mod.rs,                    *)
(* src/src/grid/tuple.rs, src/src/combine.rs                               *)
(*                                                                         *)
(* Grid2 is itertools' Product, Grid3 and Grid4 are Combine over a Product *)
(* whose first iterator is the smaller grid.  Product holds its first      *)
(* iterator a, the element a_cur of a it is at, its second iterator b and  *)
(* the untouched clone b_orig that b is restarted from.                    *)

\* most elements of one iterator of a grid
MaxGridLen == 2

\* lo..hi as an iterator
RangeIter(lo, hi) ==
    [type |-> "Range",
     range |-> [inclusive |-> FALSE, start |-> lo, end |-> hi, exhausted |-> FALSE]]

\* a wrong CombineFn: the new component is put first
CombineFn_call_front(x) == <<x[2]>> \o x[1]

\* CombineFn::call: ((a, b), c) to (a, b, c) and ((a, b, c), d) to (a, b, c, d)
CombineFn_call(x) == x[1] \o <<x[2]>>

\* Iterator::next of a Range, a Product or a Combine: the iterator after the
\* call and what the call returned
RECURSIVE Iter_next(_)
Iter_next(it) ==
    CASE it.type = "Range" ->
           LET r == Range_next(it.range)
           IN  [iter |-> [it EXCEPT !.range = r.range], val |-> r.val]
      [] it.type = "Combine" ->
           LET r == Iter_next(it.i)
           IN  [iter |-> [it EXCEPT !.i = r.iter],
                val  |-> IF r.val.some THEN Some(CombineFn_call(r.val.val)) ELSE None]
      [] it.type = "Product" ->
           LET rb     == Iter_next(it.b)
               rb2    == Iter_next(it.b_orig)
               ra     == Iter_next(it.a)
               pair(p, x) == [iter |-> p,
                              val  |-> IF p.a_cur.some THEN Some(<<p.a_cur.val, x>>)
                                       ELSE None]
           IN  IF rb.val.some THEN pair([it EXCEPT !.b = rb.iter], rb.val.val)
               ELSE IF ~rb2.val.some THEN [iter |-> [it EXCEPT !.b = rb2.iter], val |-> None]
               ELSE pair([it EXCEPT !.b = rb2.iter, !.a = ra.iter, !.a_cur = ra.val],
                         rb2.val.val)

\* Itertools::cartesian_product: the first element of a is taken at once
cartesian_product(a, b) ==
    [type |-> "Product", a |-> Iter_next(a).iter, a_cur |-> Iter_next(a).val,
     b |-> b, b_orig |-> b]

\* combine(iter): Map::new(iter, CombineFn)
combine(iter) == [type |-> "Combine", i |-> iter]

\* IntoGrid for (I1, I2), (I1, I2, I3) and (I1, I2, I3, I4)
into_grid(g) ==
    CASE Len(g) = 2 -> cartesian_product(g[1], g[2])
      [] Len(g) = 3 -> combine(cartesian_product(cartesian_product(g[1], g[2]), g[3]))
      [] Len(g) = 4 ->
           combine(cartesian_product(
               combine(cartesian_product(cartesian_product(g[1], g[2]), g[3])), g[4]))

\* the iterator of axis i: as in the tests it starts at 2 * i (axes from 0)
GridAxisStart(i) == 2 * (i - 1)

GridTupleConfigs ==
    {[kind |-> "grid", lens |-> l] :
        l \in UNION {[1..k -> 0..MaxGridLen] : k \in 2..4}}

InitGridTuple ==
    /\ cfg \in GridTupleConfigs
    /\ seq = into_grid([i \in 1..Len(cfg.lens) |->
                            RangeIter(GridAxisStart(i), GridAxisStart(i) + cfg.lens[i])])
    /\ panicked = FALSE
    /\ ret = NoCall
    /\ front = <<>>
    /\ back = <<>>
    /\ rev = NoSeq
    /\ actual_rev = <<>>

\* next on the grid
GridTuple_next ==
    /\ seq.type \in {"Product", "Combine"}
    /\ Call("next", 0,
            Outcome(Iter_next(seq).iter, Some(Len(front)), Iter_next(seq).val), TRUE)

NextGridTuple == GridTuple_next

\* a grid of two, three or four ranges read with next
SpecGridTuple == InitGridTuple /\ [][NextGridTuple]_vars

----------------------------------------------------------------------------
(* Claims about grid *)

RECURSIVE GridTupleTotalFrom(_, _)
GridTupleTotalFrom(lens, i) ==
    IF i > Len(lens) THEN 1 ELSE lens[i] * GridTupleTotalFrom(lens, i + 1)

\* the number of combinations
GridTupleTotal(c) == GridTupleTotalFrom(c.lens, 1)

\* the j-th combination (from 0) in lexicographic order, the last iterator
\* running fastest
GridTupleExpected(c, j) ==
    [i \in 1..Len(c.lens) |-> GridAxisStart(i) + get_indices(j, c.lens)[i]]

\* grid/mod.rs tests: grid((0..2, 2..4)), grid((0..2, 2..4, 4..6))
Grid2Example == [kind |-> "grid", lens |-> <<2, 2>>]
Grid2Items == <<(<<0, 2>>), (<<0, 3>>), (<<1, 2>>), (<<1, 3>>)>>
Grid3Example == [kind |-> "grid", lens |-> <<2, 2, 2>>]
Grid3Items ==
    <<(<<0, 2, 4>>), (<<0, 2, 5>>), (<<0, 3, 4>>), (<<0, 3, 5>>),
      (<<1, 2, 4>>), (<<1, 2, 5>>), (<<1, 3, 4>>), (<<1, 3, 5>>)>>
Grid4Example == [kind |-> "grid", lens |-> <<2, 2, 2, 2>>]

\* C28: grid((I1, .., Ik)) for k = 2, 3, 4 yields every combination of one
\* element per iterator exactly once, as a flat k-tuple, in lexicographic
\* order with the last iterator running fastest; combine flattens
\* ((a, b), c) and ((a, b, c), d) without changing count or order.
C28_GridLexicographic ==
    cfg.kind = "grid" =>
        /\ Len(front) <= GridTupleTotal(cfg)
        /\ \A j \in 1..Len(front) :
               /\ Len(front[j].item) = Len(cfg.lens)
               /\ front[j].item = GridTupleExpected(cfg, j - 1)
        /\ \A i, j \in 1..Len(front) : i # j => front[i].item # front[j].item
        /\ ret.op = "next" => (ret.val.some \/ Len(front) = GridTupleTotal(cfg))
        /\ cfg = Grid2Example => \A j \in 1..Len(front) : front[j].item = Grid2Items[j]
        /\ cfg = Grid3Example => \A j \in 1..Len(front) : front[j].item = Grid3Items[j]

\* the four-iterator example read to its end: sixteen items, the last one
\* (1, 3, 5, 7), then None
C28_Witness ==
    /\ cfg = Grid4Example
    /\ Len(front) = 16
    /\ front[2].item = <<0, 2, 4, 7>>
    /\ front[16].item = <<1, 3, 5, 7>>
    /\ ret.op = "next"
    /\ ~ret.val.some

----------------------------------------------------------------------------
(* Termination of Arange: src/src/arange.rs *)

\* the caller keeps calling next
SpecArangeFair == SpecArange /\ WF_vars(Arange_next)

\* an Arange the model reads to its end: one with a step towards its end has
\* no more elements than the model lets it yield
ArangeReadToEnd ==
    /\ cfg.kind = "Arange"
    /\ seq.type = "Arange"
    /\ ArangeInDomain => ArangeTotal <= MaxArangeYield

====
